---- MODULE Spec2Model ----
(***************************************************************************)
(* WikiGraph: link resolution (core/bulk_exporter.py,                      *)
(* core/tools/prepare_neo4j_csv.py) and the Neo4j ingestion engine         *)
(* (core/engine/graph_engine.py, ingest.py).                               *)
(*                                                                         *)
(* Two specifications share the definitions of this module:                *)
(*   Spec         ingest.main over the languages with a worker pool whose  *)
(*                batch writes may fail (transient and fatal store errors) *)
(*   SpecResolve  the three link resolvers (bulk exporter, SQL-join CSV    *)
(*                generator, graph engine) run over the same shard files   *)
(***************************************************************************)
EXTENDS Naturals, Integers, Sequences, FiniteSets, TLC

(***************************************************************************)
(* Bounds of the model.                                                    *)
(***************************************************************************)
\* rows of raw links in the links files of one language
MaxLinks == 2
\* store errors injected in one run of Spec
MaxFaults == 5
\* ingest_language(batch_size=...) and (workers=...) as the model runs them
BatchSize == 1
Workers == 2

(***************************************************************************)
(* Program constants.                                                      *)
(***************************************************************************)
\* graph_engine.py:25  max_retries = 5
max_retries == 5

(***************************************************************************)
(* The files on disk: data/processed/<lang>/articles_batch_*.jsonl.gz as   *)
(* sorted(glob(...)) returns them, and data/processed/qids_<lang>.csv.     *)
(***************************************************************************)
Languages == <<"pl", "de">>

Titles == {"Big Apple", "Banana", "Cherry", "Damson"}

PageIds == {1, 2, 3}

ArticleFiles(lang) ==
    IF lang = "pl"
    THEN << << [id |-> 1, title |-> "Big Apple"], [id |-> 2, title |-> "Banana"] >>,
            << [id |-> 3, title |-> "Cherry"] >> >>
    ELSE << << [id |-> 1, title |-> "Banana"] >>,
            << [id |-> 2, title |-> "Damson"] >> >>

\* the rows "page_id,qid" extract_qids.py writes (QIDs match Q\d+, never empty)
QidRows(lang) ==
    IF lang = "pl"
    THEN {<<1, "Q1">>, <<2, "Q2">>, <<3, "Q3">>}
    ELSE {<<1, "Q2">>, <<2, "Q4">>}

Range(s) == {s[i] : i \in DOMAIN s}

\* all article records of a language, over all its shards
ArticlesOf(lang) == UNION {Range(ArticleFiles(lang)[k]) : k \in DOMAIN ArticleFiles(lang)}

TitlesOf(lang) == {a.title : a \in ArticlesOf(lang)}

\* sequences over S of length at most n
SeqUpTo(S, n) == UNION {[1..k -> S] : k \in 0..n}

(***************************************************************************)
(* State.                                                                  *)
(***************************************************************************)
VARIABLES
    \* ---- input files chosen for the run
    linkRows,               \* raw link rows <<SourceTitle, TargetTitle>> of a language
    mapped,                 \* page ids that have a row in qids_<lang>.csv
    prog,                   \* the program running: "exporter", "join", "engine", "end"
    \* ---- core/bulk_exporter.py
    x_pc,                   \* position in main()/process_files()
    x_file,                 \* index of the file being read
    x_row,                  \* rows of the current links file already read
    x_qid_map,              \* bulk_exporter.qid_map_global
    x_title_map,            \* bulk_exporter.title_qid_map_global
    seen_concepts,
    w_concepts, w_articles, w_edges_rep, w_edges_links,   \* rows written to the CSVs
    link_count, resolved_count,
    \* ---- core/tools/prepare_neo4j_csv.py
    j_pc, j_row, id_map, title_map, target_map, j_nodes, j_edges,
    edge_count, miss_count, skipped_ns, total_processed,
    \* ---- core/engine/graph_engine.py and ingest.py
    e_pc,                   \* position in ingest.main()/ingest_language()
    e_li,                   \* index in sys.argv[1:] of the language being processed
    e_phase,                \* "concepts", "articles" or "links"
    e_file,                 \* index of the shard file of the running phase
    e_pos,                  \* results of executor.map already consumed by list(...)
    qid_map_global, title_qid_map_global,
    tasks,                  \* every batch submitted to a pool: key -> [batch, st, attempt, ok, err]
    store,                  \* the Neo4j store
    faults                  \* store errors injected so far

inVars == <<linkRows, mapped, prog>>
xVars == <<x_pc, x_file, x_row, x_qid_map, x_title_map, seen_concepts,
           w_concepts, w_articles, w_edges_rep, w_edges_links, link_count, resolved_count>>
jVars == <<j_pc, j_row, id_map, title_map, target_map, j_nodes, j_edges,
           edge_count, miss_count, skipped_ns, total_processed>>
eVars == <<e_pc, e_li, e_phase, e_file, e_pos, qid_map_global, title_qid_map_global,
           tasks, store, faults>>
VARIABLES
    \* ---- scripts/archive/phase1_minimal.py and scripts/phase1_production.py
    p_variant,              \* the command that is run: "minimal" or "production"
    p_dump,                 \* the pages of the dump, in the dump's order
    p_run,                  \* how many times the command has been started
    p_pc,                   \* position in main()/process_dump()/write_batch()
    p_pos,                  \* index in the dump of the page `for page in dump` reads next
    p_site,                 \* caller of write_batch/save_checkpoint: "loop", "final", "main"
    p_last_id, p_skip_mode, p_batch_num, p_articles_buffer, p_links_buffer,
    p_articles_processed, p_redirects_found, p_redirects,
    d_articles,             \* batch number -> [lines, closed] of articles_batch_NNNN.jsonl.gz
    d_links,                \* batch number -> [lines, closed] of links_batch_NNNN.csv.gz
    d_checkpoint,           \* checkpoint.json: [state, last_article_id, batch_number]
    d_redirects,            \* redirects.json: [saved, redirects]
    \* ---- history of the runs, for the statements about restarts
    g_start,                \* checkpoint.json and the shard files as the run found them
    g_emitted,              \* page ids of the articles the run appended to its buffer
    g_batches,              \* batch numbers of the shard files the run opened, in order
    g_written,              \* the checkpoints the run wrote
    g_runs                  \* how the earlier runs ended: "done" or "interrupted"

pVars == <<p_variant, p_dump, p_run, p_pc, p_pos, p_site, p_last_id, p_skip_mode,
           p_batch_num, p_articles_buffer, p_links_buffer, p_articles_processed,
           p_redirects_found, p_redirects, d_articles, d_links, d_checkpoint, d_redirects,
           g_start, g_emitted, g_batches, g_written, g_runs>>

VARIABLES
    \* ---- core/parser.py: page_generator
    s_pieces,               \* what the decompressed stream is made of: junk and page records
    s_pc,                   \* "read" in the loop, "end" after the last read returned b""
    s_pos,                  \* bytes of the stream read so far
    s_buffer,               \* page_generator's buffer
    s_spans,                \* the spans buffer[s:e+7] cut from the buffer, in order
    s_yielded,              \* the values yielded, in order
    s_discards              \* [pos, yielded] at each `buffer = b""` of the ceiling test

sVars == <<s_pieces, s_pc, s_pos, s_buffer, s_spans, s_yielded, s_discards>>

VARIABLES
    \* ---- core/parser.py: main, the loop over pool.imap_unordered
    m_pages,                \* the page records page_generator yields, in order
    m_pc,                   \* "loop" in the for loop, "done" after the final flush
    m_next,                 \* how many pages the pool has taken from the generator
    m_inflight,             \* indices of the pages whose result has not reached the loop
    m_articles_buffer,      \* articles_buffer
    m_links_buffer,         \* links_buffer
    m_batch_num,            \* batch_num
    m_articles_files,       \* batch number -> lines of articles_batch_NNNN.jsonl.gz
    m_links_files,          \* batch number -> rows of links_batch_NNNN.csv.gz
    m_redirect_file         \* rows the run appended to redirects_verified.csv

mVars == <<m_pages, m_pc, m_next, m_inflight, m_articles_buffer, m_links_buffer,
           m_batch_num, m_articles_files, m_links_files, m_redirect_file>>

parserVars == <<pVars, sVars, mVars>>

VARIABLES
    \* ---- core/engine/graph_engine.py: the batch tasks process_*_batch, as a
    \*      pool runs them on a store
    k_phase,                \* which of the three functions the tasks call
    k_complete_args,        \* whether uri, user, password, max_connections are passed
    k_tasks,                \* task -> [batch, st, attempt, driver]
    k_drivers,              \* the drivers created, each [owner, open, users]
    k_store,                \* the store
    k_store0,               \* the store before the first task
    k_faults                \* errors raised by session.run so far

kVars == <<k_phase, k_complete_args, k_tasks, k_drivers, k_store, k_store0, k_faults>>

VARIABLES
    \* ---- damaged input of the exporter and the engine
    f_missing,              \* the languages whose qids_<lang>.csv does not exist
    f_corrupt               \* where a line that is not JSON stands in an articles shard

fVars == <<f_missing, f_corrupt>>

VARIABLES
    \* ---- scripts/phase1_enhanced.py, scripts/archive/phase1_minimal.py: one
    \*      call of resolve_redirect
    r_redirects,            \* self.redirects: title -> target
    r_original,             \* original
    r_link,                 \* link
    r_visited,              \* visited
    r_hops,                 \* hops
    r_pc,                   \* "idle", "loop" (at the while test) or "returned"
    r_result                \* the value returned

rVars == <<r_redirects, r_original, r_link, r_visited, r_hops, r_pc, r_result>>

VARIABLES
    \* ---- core/parser.py (parse_page_xml) and scripts/phase1_enhanced.py
    \*      (process_article): the links of one article's text
    l_variant,              \* "core" or "enhanced"
    l_forms,                \* the text, as the pieces it is written of
    l_pos,                  \* core: where findall scans; enhanced: the wikilink at hand
    l_found,                \* core: the groups findall has captured
    l_links,                \* links
    l_pc                    \* "idle", "scan" or "returned"

lVars == <<l_variant, l_forms, l_pos, l_found, l_links, l_pc>>

VARIABLES
    \* ---- core/engine/graph_engine.py: one call of _create_batches
    c_lang,                 \* lang
    c_file,                 \* the lines of the shard file_path names
    c_mode,                 \* mode
    c_batch_size,           \* batch_size
    c_qmap,                 \* qid_map_global
    c_tmap,                 \* title_qid_map_global
    c_batches,              \* the list returned
    c_pc                    \* "idle", "call" or "returned"

cVars == <<c_lang, c_file, c_mode, c_batch_size, c_qmap, c_tmap, c_batches, c_pc>>

fnVars == <<rVars, lVars, cVars>>

workVars == <<kVars, fVars, fnVars>>

vars == <<inVars, xVars, jVars, eVars, parserVars, workVars>>

(***************************************************************************)
(* Python dicts: dict.get(k) is None for a missing key.                    *)
(***************************************************************************)
None == "<None>"

EmptyMap == [k \in {} |-> None]

Get(map, k, default) == IF k \in DOMAIN map THEN map[k] ELSE default

Put(map, k, v) == [x \in DOMAIN map \cup {k} |-> IF x = k THEN v ELSE map[x]]

\* truth value of `v` in `if sqid and tqid`: None and "" are false
Truthy(v) == v # None /\ v # ""

\* f"local:{lang}:{page_id}"
LocalId(lang, page_id) == "local:" \o lang \o ":" \o page_id

\* f"{lang}:{page_id}"
ArtId(lang, page_id) == lang \o ":" \o page_id

RECURSIVE Concat(_)
Concat(seqs) == IF seqs = <<>> THEN <<>> ELSE Head(seqs) \o Concat(Tail(seqs))

\* open(csv_path) / pd.read_csv(csv_path) finds the file
QidsReadable(lang) == lang \notin f_missing

\* a line of an articles shard on which json.loads raises JSONDecodeError
CorruptLine == [id |-> 0, title |-> "{"]

NoCorrupt == [lang |-> "none", file |-> 0, line |-> 0]

InsertAt(seq, i, x) == SubSeq(seq, 1, i - 1) \o <<x>> \o SubSeq(seq, i, Len(seq))

\* the lines of the articles shards of a language as the run reads them
ShardLines(lang) ==
    IF f_corrupt.lang # lang THEN ArticleFiles(lang)
    ELSE [k \in DOMAIN ArticleFiles(lang) |->
             IF k = f_corrupt.file
             THEN InsertAt(ArticleFiles(lang)[k], f_corrupt.line, CorruptLine)
             ELSE ArticleFiles(lang)[k]]

\* the places a corrupt line can stand in
CorruptChoices ==
    {NoCorrupt} \cup
    UNION {UNION {{[lang |-> Languages[li], file |-> k, line |-> n] :
                      n \in 1..(Len(ArticleFiles(Languages[li])[k]) + 1)} :
                  k \in DOMAIN ArticleFiles(Languages[li])} :
           li \in DOMAIN Languages}

\* the qids CSV of a language as the run finds it
QidCsv(lang) == {r \in QidRows(lang) : r[1] \in mapped}

\* links_batch_NNNN.csv.gz holds the links of the articles of articles_batch_NNNN
\* (parser.py:137-144); a row whose source is no article of the language is
\* put in the last file
ShardOf(lang, title) ==
    LET hit == {k \in DOMAIN ArticleFiles(lang) :
                    \E a \in Range(ArticleFiles(lang)[k]) : a.title = title}
    IN  IF hit = {} THEN Len(ArticleFiles(lang)) ELSE CHOOSE k \in hit : TRUE

LinkFiles(lang) ==
    [k \in DOMAIN ArticleFiles(lang) |->
        SelectSeq(linkRows, LAMBDA r : ShardOf(lang, r[1]) = k)]

(***************************************************************************)
(* graph_engine.py: identifiers and the title index.                       *)
(***************************************************************************)
\* load_resolver_to_memory: dict(zip(col0.astype(str), col1))
LoadResolver(lang) ==
    [k \in {ToString(r[1]) : r \in QidCsv(lang)} |->
        (CHOOSE r \in QidCsv(lang) : ToString(r[1]) = k)[2]]

\* (mutant) qid_map_global.get(page_id, ...) without str(): the map's keys are
\* text, the number is never found and the default is returned
get_qid_global_NoStr(qmap, lang, page_id) ==
    LocalId(lang, ToString(page_id))

\* qid_map_global.get(str(page_id), f"local:{lang}:{page_id}")
get_qid_global(qmap, lang, page_id) ==
    Get(qmap, ToString(page_id), LocalId(lang, ToString(page_id)))

\* the body of build_title_qid_map's loop over one file
RECURSIVE TitleMapOfFile(_, _, _, _)
TitleMapOfFile(tmap, qmap, lang, file) ==
    IF file = <<>> THEN tmap
    ELSE LET data == Head(file)
             qid == get_qid_global(qmap, lang, data.id)
         IN  TitleMapOfFile(Put(tmap, data.title, qid), qmap, lang, Tail(file))

RECURSIVE build_title_qid_map(_, _, _, _)
build_title_qid_map(tmap, qmap, lang, files) ==
    IF files = <<>> THEN tmap
    ELSE build_title_qid_map(TitleMapOfFile(tmap, qmap, lang, Head(files)),
                             qmap, lang, Tail(files))

(***************************************************************************)
(* graph_engine.py: _create_batches.                                       *)
(***************************************************************************)
\* batches.append(list(set(current_batch)) if mode == 'concepts' else current_batch)
Flushed(current_batch, mode) ==
    IF mode = "concepts" THEN Range(current_batch) ELSE current_batch

\* if len(current_batch) >= batch_size: batches.append(...); current_batch = []
FlushIfFull(batches, current_batch, batch_size, mode) ==
    IF Len(current_batch) >= batch_size
    THEN [batches |-> Append(batches, Flushed(current_batch, mode)), current_batch |-> <<>>]
    ELSE [batches |-> batches, current_batch |-> current_batch]

\* one line of an articles shard, modes 'articles' and 'concepts'
ArticleLineStep(st, data, batch_size, lang, mode, qmap) ==
    LET page_id == ToString(data.id)
        qid == get_qid_global(qmap, lang, data.id)
        entry == IF mode = "articles"
                 THEN [qid |-> qid, art_id |-> ArtId(lang, page_id), title |-> data.title]
                 ELSE qid
    IN  FlushIfFull(st.batches, Append(st.current_batch, entry), batch_size, mode)

\* one row [SourceTitle, TargetTitle, Lang] of a links file, mode 'links'
LinkRowStep(st, row, batch_size, tmap) ==
    LET sqid == Get(tmap, row[1], None)
        tqid == Get(tmap, row[2], None)
        current_batch == IF Truthy(sqid) /\ Truthy(tqid)
                         THEN Append(st.current_batch, [sqid |-> sqid, tqid |-> tqid])
                         ELSE st.current_batch
    IN  FlushIfFull(st.batches, current_batch, batch_size, "links")

RECURSIVE ReadLines(_, _, _, _, _, _, _)
ReadLines(st, file, batch_size, lang, mode, qmap, tmap) ==
    IF file = <<>> THEN st
    ELSE ReadLines(IF mode = "links"
                   THEN LinkRowStep(st, Head(file), batch_size, tmap)
                   ELSE ArticleLineStep(st, Head(file), batch_size, lang, mode, qmap),
                   Tail(file), batch_size, lang, mode, qmap, tmap)

\* (mutant) without the flush of the last, partly filled batch
CreateBatches_NoRemainder(file, batch_size, lang, mode, qmap, tmap) ==
    ReadLines([batches |-> <<>>, current_batch |-> <<>>],
              file, batch_size, lang, mode, qmap, tmap).batches

\* _create_batches(file_path, batch_size, lang, mode) with the two global maps
\* it reads made explicit
CreateBatches(file, batch_size, lang, mode, qmap, tmap) ==
    LET st == ReadLines([batches |-> <<>>, current_batch |-> <<>>],
                        file, batch_size, lang, mode, qmap, tmap)
    IN  IF st.current_batch # <<>>
        THEN Append(st.batches, Flushed(st.current_batch, mode))
        ELSE st.batches

(***************************************************************************)
(* The Neo4j store and the three Cypher writes.  Nodes and relationships   *)
(* are multisets (key -> number of copies), so that a write that creates a *)
(* duplicate is visible.                                                   *)
(***************************************************************************)
EmptyBag == [k \in {} |-> 0]

Copies(bag, k) == IF k \in DOMAIN bag THEN bag[k] ELSE 0

\* CREATE: one more copy
Create(bag, k) == [x \in DOMAIN bag \cup {k} |-> IF x = k THEN Copies(bag, k) + 1 ELSE bag[x]]

\* (mutant) the query says CREATE where the code says MERGE
Merge_AsCreate(bag, k) == Create(bag, k)

\* MERGE: match the pattern, create it only when nothing matches
Merge(bag, k) == IF Copies(bag, k) > 0 THEN bag ELSE Create(bag, k)

EmptyStore ==
    [concepts |-> EmptyBag,      \* qid of each (:Concept)
     articles |-> EmptyBag,      \* <<id, title, lang>> of each (:Article)
     represents |-> EmptyBag,    \* <<article id, qid>> of each [:REPRESENTS]
     links_to |-> EmptyBag]      \* <<source qid, target qid>> of each [:LINKS_TO]

\* (mutant) UNWIND $batch AS qid CREATE (c:Concept {qid: qid})
RECURSIVE MergeConcepts_Create(_, _)
MergeConcepts_Create(concepts, batch) ==
    IF batch = {} THEN concepts
    ELSE LET qid == CHOOSE q \in batch : TRUE
         IN  MergeConcepts_Create(Create(concepts, qid), batch \ {qid})

\* UNWIND $batch AS qid MERGE (c:Concept {qid: qid})
RECURSIVE MergeConcepts(_, _)
MergeConcepts(concepts, batch) ==
    IF batch = {} THEN concepts
    ELSE LET qid == CHOOSE q \in batch : TRUE
         IN  MergeConcepts(Merge(concepts, qid), batch \ {qid})

ConceptWrite(s, batch) == [s EXCEPT !.concepts = MergeConcepts(s.concepts, batch)]

\* MERGE (a:Article {id: row.art_id}) ON CREATE SET a.title = row.title, a.lang = $lang
MergeArticle(articles, row, lang) ==
    IF \E a \in DOMAIN articles : a[1] = row.art_id /\ articles[a] > 0
    THEN articles
    ELSE Create(articles, <<row.art_id, row.title, lang>>)

\* one row of process_article_batch's query
ArticleRowWrite(s, row, lang) ==
    IF Copies(s.concepts, row.qid) = 0
    THEN s                                   \* MATCH (c:Concept {qid: row.qid}) finds nothing
    ELSE [s EXCEPT !.articles = MergeArticle(s.articles, row, lang),
                   !.represents = Merge(s.represents, <<row.art_id, row.qid>>)]

RECURSIVE ArticleWrite(_, _, _)
ArticleWrite(s, batch, lang) ==
    IF batch = <<>> THEN s
    ELSE ArticleWrite(ArticleRowWrite(s, Head(batch), lang), Tail(batch), lang)

\* one row of process_link_batch's query
LinkRowWrite(s, row) ==
    IF Copies(s.concepts, row.sqid) = 0 \/ Copies(s.concepts, row.tqid) = 0
    THEN s                                   \* one of the two MATCHes finds nothing
    ELSE [s EXCEPT !.links_to = Merge(s.links_to, <<row.sqid, row.tqid>>)]

RECURSIVE LinkWrite(_, _)
LinkWrite(s, batch) ==
    IF batch = <<>> THEN s
    ELSE LinkWrite(LinkRowWrite(s, Head(batch)), Tail(batch))

\* session.run(query, batch=...) of the phase's process_*_batch, committed
Write(s, phase, batch, lang) ==
    CASE phase = "concepts" -> ConceptWrite(s, batch)
      [] phase = "articles" -> ArticleWrite(s, batch, lang)
      [] phase = "links" -> LinkWrite(s, batch)

(***************************************************************************)
(* ingest.py main() and WikiGraphEngine.ingest_language().                 *)
(*                                                                         *)
(* e_pc: "load"    before load_resolver_to_memory(lang)                    *)
(*       "build"   before build_title_qid_map / setup_constraints          *)
(*       "open"    at the head of a phase's `for f in ...` loop            *)
(*       "collect" inside `with ProcessPoolExecutor`: list(executor.map()) *)
(*       "unwind"  an exception left list(...): the with block's exit      *)
(*                 waits for the pool (shutdown(wait=True))                *)
(*       "returned", "raised": main() is over                              *)
(***************************************************************************)
Lang == Languages[e_li]

Phases == <<"concepts", "articles", "links">>

\* article_files for phases 1 and 2, link_files for phase 3
PhaseFiles(lang, phase) ==
    IF phase = "links" THEN LinkFiles(lang) ELSE ArticleFiles(lang)

\* a task of the pool: <<language index, phase, file index, batch index>>
KeysOf(li, phase, file) ==
    {k \in DOMAIN tasks : k[1] = li /\ k[2] = phase /\ k[3] = file}

CurKeys == KeysOf(e_li, e_phase, e_file)

Key(i) == <<e_li, e_phase, e_file, i>>

\* tasks a worker process holds
Active(keys) == {k \in keys : tasks[k].st \in {"running", "backoff"}}

\* ProcessPoolExecutor.__exit__: shutdown(wait=True) returns when no task is
\* pending or in a worker
PoolIdle(keys) == \A k \in keys : tasks[k].st \in {"done", "failed", "cancelled"}

NewTask(batch) == [batch |-> batch, st |-> "pending", attempt |-> 0, ok |-> FALSE, err |-> "none"]

\* load_resolver_to_memory(lang): qid_map_global is assigned anew
ELoadResolver ==
    /\ prog = "engine" /\ e_pc = "load"
    /\ QidsReadable(Lang)
    /\ qid_map_global' = LoadResolver(Lang)
    /\ e_pc' = "build"
    /\ UNCHANGED <<e_li, e_phase, e_file, e_pos, title_qid_map_global, tasks, store, faults>>
    /\ UNCHANGED <<inVars, xVars, jVars, parserVars, workVars>>

\* build_title_qid_map(lang, data_dir): entries are added to the module global;
\* then setup_constraints()
EBuildTitleMap ==
    /\ prog = "engine" /\ e_pc = "build"
    /\ CorruptLine \notin Range(Concat(ShardLines(Lang)))
    /\ title_qid_map_global' =
           build_title_qid_map(title_qid_map_global, qid_map_global, Lang, ArticleFiles(Lang))
    /\ e_pc' = "open" /\ e_phase' = "concepts" /\ e_file' = 1
    /\ UNCHANGED <<e_li, e_pos, qid_map_global, tasks, store, faults>>
    /\ UNCHANGED <<inVars, xVars, jVars, parserVars, workVars>>

\* load_resolver_to_memory(lang) when pd.read_csv(csv_path) raises
\* FileNotFoundError: it leaves ingest_language, run_ingestion and main
ELoadResolverRaises ==
    /\ prog = "engine" /\ e_pc = "load"
    /\ ~QidsReadable(Lang)
    /\ e_pc' = "raised" /\ prog' = "end"
    /\ UNCHANGED <<e_li, e_phase, e_file, e_pos, qid_map_global, title_qid_map_global,
                   tasks, store, faults>>
    /\ UNCHANGED <<linkRows, mapped, xVars, jVars, parserVars, workVars>>

\* the lines of the shards that stand before the first corrupt line
RECURSIVE LinesBeforeCorrupt(_)
LinesBeforeCorrupt(lines) ==
    IF lines = <<>> \/ Head(lines) = CorruptLine THEN <<>>
    ELSE <<Head(lines)>> \o LinesBeforeCorrupt(Tail(lines))

\* build_title_qid_map(lang, data_dir) when json.loads(line) raises
\* JSONDecodeError: the entries of the lines before are in the module global,
\* and the exception leaves ingest_language, run_ingestion and main
EBuildTitleMapRaises ==
    /\ prog = "engine" /\ e_pc = "build"
    /\ CorruptLine \in Range(Concat(ShardLines(Lang)))
    /\ title_qid_map_global' =
           TitleMapOfFile(title_qid_map_global, qid_map_global, Lang,
                          LinesBeforeCorrupt(Concat(ShardLines(Lang))))
    /\ e_pc' = "raised" /\ prog' = "end"
    /\ UNCHANGED <<e_li, e_phase, e_file, e_pos, qid_map_global, tasks, store, faults>>
    /\ UNCHANGED <<linkRows, mapped, xVars, jVars, parserVars, workVars>>

\* batches = self._create_batches(f, ...); executor.map(func, batches) submits
\* every batch
EOpenFile ==
    /\ prog = "engine" /\ e_pc = "open"
    /\ e_file <= Len(PhaseFiles(Lang, e_phase))
    /\ LET batches == CreateBatches(PhaseFiles(Lang, e_phase)[e_file], BatchSize, Lang,
                                    e_phase, qid_map_global, title_qid_map_global)
       IN  tasks' = [k \in DOMAIN tasks \cup {Key(i) : i \in DOMAIN batches} |->
                        IF k \in DOMAIN tasks THEN tasks[k] ELSE NewTask(batches[k[4]])]
    /\ e_pc' = "collect" /\ e_pos' = 0
    /\ UNCHANGED <<e_li, e_phase, e_file, qid_map_global, title_qid_map_global, store, faults>>
    /\ UNCHANGED <<inVars, xVars, jVars, parserVars, workVars>>

\* the phase's loop is over: the next phase, the next language of main()'s loop,
\* or the end of main()
ENextPhase ==
    /\ prog = "engine" /\ e_pc = "open"
    /\ e_file > Len(PhaseFiles(Lang, e_phase))
    /\ IF e_phase = "concepts" THEN
            /\ e_phase' = "articles" /\ e_file' = 1
            /\ UNCHANGED <<e_pc, e_li, prog>>
       ELSE IF e_phase = "articles" THEN
            /\ e_phase' = "links" /\ e_file' = 1
            /\ UNCHANGED <<e_pc, e_li, prog>>
       ELSE IF e_li < Len(Languages) THEN
            /\ e_li' = e_li + 1 /\ e_pc' = "load"
            /\ UNCHANGED <<e_phase, e_file, prog>>
       ELSE /\ e_pc' = "returned" /\ prog' = "end"
            /\ UNCHANGED <<e_li, e_phase, e_file>>
    /\ UNCHANGED <<e_pos, qid_map_global, title_qid_map_global, tasks, store, faults>>
    /\ UNCHANGED <<linkRows, mapped, xVars, jVars, parserVars, workVars>>

\* a free worker takes the pool's next pending batch and creates its driver
EStartTask(k) ==
    /\ tasks[k].st = "pending"
    /\ \A j \in KeysOf(k[1], k[2], k[3]) : tasks[j].st = "pending" => j[4] >= k[4]
    /\ Cardinality(Active(KeysOf(k[1], k[2], k[3]))) < Workers
    /\ tasks' = [tasks EXCEPT ![k].st = "running"]
    /\ UNCHANGED <<e_pc, e_li, e_phase, e_file, e_pos, qid_map_global, title_qid_map_global,
                   store, faults>>
    /\ UNCHANGED <<inVars, xVars, jVars, parserVars, workVars>>

\* execute_with_retry: session.run(query) succeeds; return; driver.close()
EAttemptOk(k) ==
    /\ tasks[k].st = "running"
    /\ store' = Write(store, k[2], tasks[k].batch, Languages[k[1]])
    /\ tasks' = [tasks EXCEPT ![k].st = "done", ![k].ok = TRUE]
    /\ UNCHANGED <<e_pc, e_li, e_phase, e_file, e_pos, qid_map_global, title_qid_map_global,
                   faults>>
    /\ UNCHANGED <<inVars, xVars, jVars, parserVars, workVars>>

\* (mutant) `if attempt == max_retries: raise`: the last error is swallowed,
\* the loop ends and execute_with_retry returns
EAttemptTransient_OffByOne(k) ==
    /\ tasks[k].st = "running"
    /\ faults < MaxFaults
    /\ faults' = faults + 1
    /\ store' = store
    /\ tasks' = [tasks EXCEPT ![k].err = "transient",
                              ![k].st = IF tasks[k].attempt = max_retries - 1
                                        THEN "done" ELSE "backoff"]
    /\ UNCHANGED <<e_pc, e_li, e_phase, e_file, e_pos, qid_map_global, title_qid_map_global>>
    /\ UNCHANGED <<inVars, xVars, jVars, parserVars, workVars>>

\* execute_with_retry: session.run raises TransientError or ServiceUnavailable.
\* The store may have committed the write when the connection was lost.
\* `if attempt == max_retries - 1: raise`, otherwise time.sleep(backoff).
EAttemptTransient(k) ==
    /\ tasks[k].st = "running"
    /\ faults < MaxFaults
    /\ faults' = faults + 1
    /\ \E committed \in BOOLEAN :
          store' = IF committed
                   THEN Write(store, k[2], tasks[k].batch, Languages[k[1]])
                   ELSE store
    /\ tasks' = [tasks EXCEPT ![k].err = "transient",
                              ![k].st = IF tasks[k].attempt = max_retries - 1
                                        THEN "failed" ELSE "backoff"]
    /\ UNCHANGED <<e_pc, e_li, e_phase, e_file, e_pos, qid_map_global, title_qid_map_global>>
    /\ UNCHANGED <<inVars, xVars, jVars, parserVars, workVars>>

\* the sleep is over: the next iteration of `for attempt in range(max_retries)`
EWake(k) ==
    /\ tasks[k].st = "backoff"
    /\ tasks' = [tasks EXCEPT ![k].st = "running", ![k].attempt = @ + 1]
    /\ UNCHANGED <<e_pc, e_li, e_phase, e_file, e_pos, qid_map_global, title_qid_map_global,
                   store, faults>>
    /\ UNCHANGED <<inVars, xVars, jVars, parserVars, workVars>>

\* session.run raises an error the except clause does not name: it leaves
\* execute_with_retry at once
EAttemptFatal(k) ==
    /\ tasks[k].st = "running"
    /\ faults < MaxFaults
    /\ faults' = faults + 1
    /\ tasks' = [tasks EXCEPT ![k].st = "failed", ![k].err = "fatal"]
    /\ UNCHANGED <<e_pc, e_li, e_phase, e_file, e_pos, qid_map_global, title_qid_map_global,
                   store>>
    /\ UNCHANGED <<inVars, xVars, jVars, parserVars, workVars>>

\* list(executor.map(...)) takes the next result, in submission order
ECollect ==
    /\ prog = "engine" /\ e_pc = "collect"
    /\ Key(e_pos + 1) \in DOMAIN tasks
    /\ tasks[Key(e_pos + 1)].st = "done"
    /\ e_pos' = e_pos + 1
    /\ UNCHANGED <<e_pc, e_li, e_phase, e_file, qid_map_global, title_qid_map_global,
                   tasks, store, faults>>
    /\ UNCHANGED <<inVars, xVars, jVars, parserVars, workVars>>

\* (mutant) the batches are submitted and the loop goes on without waiting for
\* their results (executor.submit and shutdown(wait=False))
ECloseFile_NoWait ==
    /\ prog = "engine" /\ e_pc = "collect"
    /\ e_pc' = "open" /\ e_file' = e_file + 1
    /\ UNCHANGED <<e_li, e_phase, e_pos, qid_map_global, title_qid_map_global,
                   tasks, store, faults>>
    /\ UNCHANGED <<inVars, xVars, jVars, parserVars, workVars>>

\* every result is in: the with block ends (shutdown(wait=True)) and the loop
\* goes to the next file
ECloseFile ==
    /\ prog = "engine" /\ e_pc = "collect"
    /\ Key(e_pos + 1) \notin DOMAIN tasks
    /\ PoolIdle(CurKeys)
    /\ e_pc' = "open" /\ e_file' = e_file + 1
    /\ UNCHANGED <<e_li, e_phase, e_pos, qid_map_global, title_qid_map_global,
                   tasks, store, faults>>
    /\ UNCHANGED <<inVars, xVars, jVars, parserVars, workVars>>

\* (mutant) the batch's exception is caught and dropped: the result counts as taken
ECollectFailure_Swallowed ==
    /\ prog = "engine" /\ e_pc = "collect"
    /\ Key(e_pos + 1) \in DOMAIN tasks
    /\ tasks[Key(e_pos + 1)].st = "failed"
    /\ e_pos' = e_pos + 1
    /\ UNCHANGED <<e_pc, e_li, e_phase, e_file, qid_map_global, title_qid_map_global,
                   tasks, store, faults>>
    /\ UNCHANGED <<inVars, xVars, jVars, parserVars, workVars>>

\* the next result is an exception: it is raised out of list(...); the map's
\* result iterator cancels the futures no worker has taken
ECollectFailure ==
    /\ prog = "engine" /\ e_pc = "collect"
    /\ Key(e_pos + 1) \in DOMAIN tasks
    /\ tasks[Key(e_pos + 1)].st = "failed"
    /\ tasks' = [k \in DOMAIN tasks |->
                    IF k \in CurKeys /\ tasks[k].st = "pending"
                    THEN [tasks[k] EXCEPT !.st = "cancelled"] ELSE tasks[k]]
    /\ e_pc' = "unwind"
    /\ UNCHANGED <<e_li, e_phase, e_file, e_pos, qid_map_global, title_qid_map_global,
                   store, faults>>
    /\ UNCHANGED <<inVars, xVars, jVars, parserVars, workVars>>

\* the with block's exit has waited for the pool; the exception leaves
\* ingest_language, run_ingestion and main
EUnwound ==
    /\ prog = "engine" /\ e_pc = "unwind"
    /\ PoolIdle(CurKeys)
    /\ e_pc' = "raised" /\ prog' = "end"
    /\ UNCHANGED <<e_li, e_phase, e_file, e_pos, qid_map_global, title_qid_map_global,
                   tasks, store, faults>>
    /\ UNCHANGED <<linkRows, mapped, xVars, jVars, parserVars, workVars>>

(***************************************************************************)
(* core/bulk_exporter.py, run for the first language.                      *)
(*                                                                         *)
(* x_pc: "load" before load_qid_map, "build" before build_title_map,       *)
(*       "nodes" before pass 1 of process_files, "links" in pass 2,        *)
(*       "done" after main() returned, "raised" after it raised            *)
(***************************************************************************)
XLang == Languages[1]

\* load_qid_map: {row[0]: row[1] for row in reader}, the fields being text
load_qid_map(lang) ==
    [k \in {ToString(r[1]) : r \in QidCsv(lang)} |->
        (CHOOSE r \in QidCsv(lang) : ToString(r[1]) = k)[2]]

\* build_title_map's loop body over the lines of one file
RECURSIVE XTitleMapOfFile(_, _, _, _)
XTitleMapOfFile(tmap, qmap, lang, file) ==
    IF file = <<>> THEN tmap
    ELSE IF Head(file) = CorruptLine
    THEN XTitleMapOfFile(tmap, qmap, lang, Tail(file))     \* except JSONDecodeError: continue
    ELSE LET data == Head(file)
             page_id == ToString(data.id)
             qid == Get(qmap, page_id, LocalId(lang, page_id))
         IN  XTitleMapOfFile(Put(tmap, data.title, qid), qmap, lang, Tail(file))

\* (mutant) the loop over the article files ends after the first one
build_title_map_FirstFileOnly(tmap, qmap, lang, article_files) ==
    IF article_files = <<>> THEN tmap
    ELSE XTitleMapOfFile(tmap, qmap, lang, Head(article_files))

RECURSIVE build_title_map(_, _, _, _)
build_title_map(tmap, qmap, lang, article_files) ==
    IF article_files = <<>> THEN tmap
    ELSE build_title_map(XTitleMapOfFile(tmap, qmap, lang, Head(article_files)),
                         qmap, lang, Tail(article_files))

\* pass 1 of process_files over the lines of the articles shards:
\* out = [seen, concepts, articles, edges_rep]
RECURSIVE ExportNodes(_, _, _, _)
ExportNodes(out, qmap, lang, lines) ==
    IF lines = <<>> THEN out
    ELSE IF Head(lines) = CorruptLine
    THEN ExportNodes(out, qmap, lang, Tail(lines))         \* except JSONDecodeError: continue
    ELSE LET data == Head(lines)
             page_id == ToString(data.id)
             qid == Get(qmap, page_id, LocalId(lang, page_id))
             article_uuid == ArtId(lang, page_id)
             next == [seen |-> out.seen \cup {qid},
                      concepts |-> IF qid \notin out.seen
                                   THEN Append(out.concepts, <<qid>>) ELSE out.concepts,
                      articles |-> Append(out.articles, <<article_uuid, data.title, lang>>),
                      edges_rep |-> Append(out.edges_rep, <<article_uuid, qid, "REPRESENTS">>)]
         IN  ExportNodes(next, qmap, lang, Tail(lines))

\* main(): load_qid_map(lang) when open(csv_path, 'r') raises FileNotFoundError:
\* nothing catches it
XLoadQidMapRaises ==
    /\ prog = "exporter" /\ x_pc = "load"
    /\ ~QidsReadable(XLang)
    /\ x_pc' = "raised" /\ prog' = "end"
    /\ UNCHANGED <<x_file, x_row, x_qid_map, x_title_map, seen_concepts, w_concepts,
                   w_articles, w_edges_rep, w_edges_links, link_count, resolved_count>>
    /\ UNCHANGED <<linkRows, mapped, jVars, eVars, parserVars, workVars>>

\* main(): load_qid_map(lang)
XLoadQidMap ==
    /\ prog = "exporter" /\ x_pc = "load"
    /\ QidsReadable(XLang)
    /\ x_qid_map' = load_qid_map(XLang)
    /\ x_pc' = "build"
    /\ UNCHANGED <<x_file, x_row, x_title_map, seen_concepts, w_concepts, w_articles,
                   w_edges_rep, w_edges_links, link_count, resolved_count>>
    /\ UNCHANGED <<inVars, jVars, eVars, parserVars, workVars>>

\* main(): build_title_map(article_files, lang) over every articles shard
XBuildTitleMap ==
    /\ prog = "exporter" /\ x_pc = "build"
    /\ x_title_map' = build_title_map(x_title_map, x_qid_map, XLang, ShardLines(XLang))
    /\ x_pc' = "nodes"
    /\ UNCHANGED <<x_file, x_row, x_qid_map, seen_concepts, w_concepts, w_articles,
                   w_edges_rep, w_edges_links, link_count, resolved_count>>
    /\ UNCHANGED <<inVars, jVars, eVars, parserVars, workVars>>

\* process_files, pass 1: nodes_concepts.csv, nodes_articles.csv, edges_represents.csv
XExportNodes ==
    /\ prog = "exporter" /\ x_pc = "nodes"
    /\ LET out == ExportNodes([seen |-> {}, concepts |-> <<>>, articles |-> <<>>,
                               edges_rep |-> <<>>],
                              x_qid_map, XLang, Concat(ShardLines(XLang)))
       IN  /\ seen_concepts' = out.seen
           /\ w_concepts' = out.concepts
           /\ w_articles' = out.articles
           /\ w_edges_rep' = out.edges_rep
    /\ x_pc' = "links" /\ x_file' = 1 /\ x_row' = 0
    /\ UNCHANGED <<x_qid_map, x_title_map, w_edges_links, link_count, resolved_count>>
    /\ UNCHANGED <<inVars, jVars, eVars, parserVars, workVars>>

\* (mutant) a title missing from the index gets a synthetic identifier, as a
\* page missing from the QID map does
XExportLinkRow_SyntheticFallback ==
    /\ prog = "exporter" /\ x_pc = "links"
    /\ x_file <= Len(LinkFiles(XLang))
    /\ x_row < Len(LinkFiles(XLang)[x_file])
    /\ LET row == LinkFiles(XLang)[x_file][x_row + 1]
           s_qid == Get(x_title_map, row[1], LocalId(XLang, row[1]))
           t_qid == Get(x_title_map, row[2], LocalId(XLang, row[2]))
       IN  /\ link_count' = link_count + 1
           /\ w_edges_links' = Append(w_edges_links, <<s_qid, t_qid, "LINKS_TO">>)
           /\ resolved_count' = resolved_count + 1
    /\ x_row' = x_row + 1
    /\ UNCHANGED <<x_pc, x_file, x_qid_map, x_title_map, seen_concepts, w_concepts,
                   w_articles, w_edges_rep>>
    /\ UNCHANGED <<inVars, jVars, eVars, parserVars, workVars>>

\* process_files, pass 2: one row of the current links file
XExportLinkRow ==
    /\ prog = "exporter" /\ x_pc = "links"
    /\ x_file <= Len(LinkFiles(XLang))
    /\ x_row < Len(LinkFiles(XLang)[x_file])
    /\ LET row == LinkFiles(XLang)[x_file][x_row + 1]
           s_qid == Get(x_title_map, row[1], None)
           t_qid == Get(x_title_map, row[2], None)
       IN  /\ link_count' = link_count + 1
           /\ IF Truthy(s_qid) /\ Truthy(t_qid)
              THEN /\ w_edges_links' = Append(w_edges_links, <<s_qid, t_qid, "LINKS_TO">>)
                   /\ resolved_count' = resolved_count + 1
              ELSE UNCHANGED <<w_edges_links, resolved_count>>
    /\ x_row' = x_row + 1
    /\ UNCHANGED <<x_pc, x_file, x_qid_map, x_title_map, seen_concepts, w_concepts,
                   w_articles, w_edges_rep>>
    /\ UNCHANGED <<inVars, jVars, eVars, parserVars, workVars>>

\* the current links file is read to its end: the next file
XNextLinkFile ==
    /\ prog = "exporter" /\ x_pc = "links"
    /\ x_file <= Len(LinkFiles(XLang))
    /\ x_row = Len(LinkFiles(XLang)[x_file])
    /\ x_file' = x_file + 1 /\ x_row' = 0
    /\ UNCHANGED <<x_pc, x_qid_map, x_title_map, seen_concepts, w_concepts, w_articles,
                   w_edges_rep, w_edges_links, link_count, resolved_count>>
    /\ UNCHANGED <<inVars, jVars, eVars, parserVars, workVars>>

\* the summary: resolved_count/link_count*100 raises ZeroDivisionError when no
\* row was read; otherwise the files are closed and main() returns
XFinish ==
    /\ prog = "exporter" /\ x_pc = "links"
    /\ x_file > Len(LinkFiles(XLang))
    /\ x_pc' = IF link_count = 0 THEN "raised" ELSE "done"
    /\ prog' = "join"
    /\ UNCHANGED <<x_file, x_row, x_qid_map, x_title_map, seen_concepts, w_concepts,
                   w_articles, w_edges_rep, w_edges_links, link_count, resolved_count>>
    /\ UNCHANGED <<linkRows, mapped, jVars, eVars, parserVars, workVars>>

(***************************************************************************)
(* core/tools/prepare_neo4j_csv.py, run for the same language on the       *)
(* SQLite tables that hold the same articles, mappings and links.          *)
(***************************************************************************)
\* str.replace(" ", "_")
Underscore(title) == IF title = "Big Apple" THEN "Big_Apple" ELSE title

\* table pages: <<page_id, title, namespace>>, the article records
Pages(lang) == {<<a.id, a.title, 0>> : a \in ArticlesOf(lang)}

\* table id_mapping: <<page_id, qid>>
IdMapping(lang) == QidCsv(lang)

\* table link_targets: <<lt_id, lt_title, lt_namespace>>, titles as MediaWiki stores them
LinkTargets ==
    {<<1, "Big_Apple", 0>>, <<2, "Banana", 0>>, <<3, "Cherry", 0>>, <<4, "Damson", 0>>}

\* the pagelinks dump: <<pl_from, pl_from_namespace, pl_target_id>> of each raw
\* link; pl_from is 0 when the source title is no page of the language
PageLinks(lang) ==
    [i \in DOMAIN linkRows |->
        LET from == {a.id : a \in {b \in ArticlesOf(lang) : b.title = linkRows[i][1]}}
            lt == CHOOSE t \in LinkTargets : t[2] = Underscore(linkRows[i][2])
        IN  <<IF from = {} THEN 0 ELSE CHOOSE p \in from : TRUE, 0, lt[1]>>]

\* SELECT p.page_id, p.title, m.qid FROM pages p JOIN id_mapping m
\*   ON p.page_id = m.page_id WHERE p.namespace = 0
PagesJoinIdMapping(lang) ==
    {<<p[1], p[2], m[2]>> : <<p, m>> \in
        {pm \in Pages(lang) \X IdMapping(lang) : pm[1][1] = pm[2][1] /\ pm[1][3] = 0}}

\* load_mappings: id_map[pid] = qid; title_map[title.replace(" ", "_")] = qid
load_mappings(lang) ==
    LET rows == PagesJoinIdMapping(lang)
    IN  [id_map |-> [pid \in {r[1] : r \in rows} |->
                        (CHOOSE r \in rows : r[1] = pid)[3]],
         title_map |-> [t \in {Underscore(r[2]) : r \in rows} |->
                        (CHOOSE r \in rows : Underscore(r[2]) = t)[3]]]

\* load_link_targets: target_map[lt_id] = lt_title.replace(" ", "_"), namespace 0
load_link_targets ==
    LET rows == {t \in LinkTargets : t[3] = 0}
    IN  [id \in {t[1] : t \in rows} |-> Underscore((CHOOSE t \in rows : t[1] = id)[2])]

\* generate_csvs: the maps are loaded and nodes.csv is written
JLoad ==
    /\ prog = "join" /\ j_pc = "load"
    /\ id_map' = load_mappings(XLang).id_map
    /\ title_map' = load_mappings(XLang).title_map
    /\ target_map' = load_link_targets
    /\ j_nodes' = {<<id_map'[pid], 0, "Concept">> : pid \in DOMAIN id_map'}
    /\ j_pc' = "edges"
    /\ UNCHANGED <<j_row, j_edges, edge_count, miss_count, skipped_ns, total_processed>>
    /\ UNCHANGED <<inVars, xVars, eVars, parserVars, workVars>>

\* generate_csvs: one row of the pagelinks dump
JRow ==
    /\ prog = "join" /\ j_pc = "edges"
    /\ j_row < Len(PageLinks(XLang))
    /\ LET row == PageLinks(XLang)[j_row + 1]
           src_qid == Get(id_map, row[1], None)
           tgt_title == Get(target_map, row[3], None)
           tgt_qid == Get(title_map, tgt_title, None)
       IN  /\ total_processed' = total_processed + 1
           /\ IF ~Truthy(src_qid) THEN
                  UNCHANGED <<j_edges, edge_count, miss_count, skipped_ns>>
              ELSE IF ~Truthy(tgt_title) THEN
                  /\ skipped_ns' = skipped_ns + 1
                  /\ UNCHANGED <<j_edges, edge_count, miss_count>>
              ELSE IF Truthy(tgt_qid) THEN
                  /\ j_edges' = Append(j_edges, <<src_qid, tgt_qid, "LINKS_TO">>)
                  /\ edge_count' = edge_count + 1
                  /\ UNCHANGED <<miss_count, skipped_ns>>
              ELSE
                  /\ miss_count' = miss_count + 1
                  /\ UNCHANGED <<j_edges, edge_count, skipped_ns>>
    /\ j_row' = j_row + 1
    /\ UNCHANGED <<j_pc, id_map, title_map, target_map, j_nodes>>
    /\ UNCHANGED <<inVars, xVars, eVars, parserVars, workVars>>

\* the dump is read to its end: the counts are printed, the checksums computed
JFinish ==
    /\ prog = "join" /\ j_pc = "edges"
    /\ j_row = Len(PageLinks(XLang))
    /\ j_pc' = "done" /\ prog' = "end"
    /\ UNCHANGED <<j_row, id_map, title_map, target_map, j_nodes, j_edges,
                   edge_count, miss_count, skipped_ns, total_processed>>
    /\ UNCHANGED <<linkRows, mapped, xVars, eVars, parserVars, workVars>>

(***************************************************************************)
(* scripts/archive/phase1_minimal.py (MinimalParser) and                   *)
(* scripts/phase1_production.py (ProductionParser, whose process_dump and  *)
(* write_batch are EnhancedParser's of scripts/phase1_enhanced.py): the    *)
(* dump is read page by page, a batch of articles and their links is       *)
(* written when the buffer is full, and checkpoint.json after each batch.  *)
(* The command can be interrupted between any two steps and started again. *)
(*                                                                         *)
(* p_pc: "start"     main() is about to call process_dump                  *)
(*       "pages"     at the head of `for page in dump`                     *)
(*       "wb_a_open" write_batch: before gzip.open(articles_file, 'wt')    *)
(*       "wb_a_write"            the file is open and empty                *)
(*       "wb_l_open", "wb_l_write"   the same for links_file               *)
(*       "ckpt_open" save_checkpoint: before open(checkpoint_file, 'w')    *)
(*       "ckpt_dump"             the file is open and empty                *)
(*       "done"      main() returned;  "stopped"  the process was ended    *)
(***************************************************************************)
\* self.batch_size as the model runs the parsers
ParserBatchSize == 2
\* starts of the command the model follows
MaxRuns == 2

\* phase1_minimal.py:269  --max-articles, default=1000
max_articles == 1000
\* phase1_minimal.py:126  max_hops = 5
max_hops == 5

DumpPageIds == 1..5

\* a page of the dump with its one revision; `kind3` says what page 3 is: a
\* redirect to T5 or a page of the Talk namespace.  `links` are the titles of
\* the page's wikilinks after clean_link and the prefix filter.
DumpPage(i, kind3) ==
    [id |-> i,
     namespace |-> IF i = 3 /\ kind3 = "talk" THEN 1 ELSE 0,
     title |-> "T" \o ToString(i),
     revision_id |-> 100 + i,
     redirect_target |-> IF i = 3 /\ kind3 = "redirect" THEN "T5" ELSE None,
     links |-> CASE i = 1 -> <<"T3">>
                 [] i = 2 -> <<"T2", "T1">>
                 [] i = 4 -> <<"T3", "T9">>
                 [] OTHER -> <<>>]

\* the dumps: the five pages in any order of their ids
Dumps ==
    {[k \in DumpPageIds |-> DumpPage(f[k], kind3)] :
        f \in Permutations(DumpPageIds), kind3 \in {"redirect", "talk"}}

NoFile == [n \in {} |-> [lines |-> <<>>, closed |-> TRUE]]

\* checkpoint.json: no file, a file opened for writing and still empty, or the
\* JSON object save_checkpoint dumps
NoCheckpoint == [state |-> "absent", last_article_id |-> 0, batch_number |-> 0]

TruncatedCheckpoint == [state |-> "truncated", last_article_id |-> 0, batch_number |-> 0]

Checkpoint(last_id, batch_num) ==
    [state |-> "written", last_article_id |-> last_id, batch_number |-> batch_num]

\* load_checkpoint: the file's last_article_id; 0 when there is no file or
\* json.load fails
load_checkpoint(checkpoint) ==
    IF checkpoint.state = "written" THEN checkpoint.last_article_id ELSE 0

\* resolve_redirect: follow self.redirects, at most max_hops hops
RECURSIVE ResolveLoop(_, _, _, _, _)
ResolveLoop(link, visited, hops, original, redirects) ==
    IF link \in DOMAIN redirects /\ link \notin visited
    THEN IF hops + 1 >= max_hops THEN original
         ELSE ResolveLoop(redirects[link], visited \cup {link}, hops + 1, original, redirects)
    ELSE link

resolve_redirect(link, redirects) == ResolveLoop(link, {}, 0, link, redirects)

\* the rows (page.title, resolved) of a page's links; self-links are skipped
RECURSIVE LinkRowsOf(_, _, _)
LinkRowsOf(title, links, redirects) ==
    IF links = <<>> THEN <<>>
    ELSE LET resolved == resolve_redirect(Head(links), redirects)
         IN  (IF resolved # title THEN << <<title, resolved>> >> ELSE <<>>)
             \o LinkRowsOf(title, Tail(links), redirects)

\* the article record of a page
ArticleOf(page) == [id |-> page.id, title |-> page.title, revision_id |-> page.revision_id]

\* the parser's working state
ParserState(skip_mode, arts, links, processed, found, redirects, emitted) ==
    [skip_mode |-> skip_mode, articles_buffer |-> arts, links_buffer |-> links,
     articles_processed |-> processed, redirects_found |-> found, redirects |-> redirects,
     emitted |-> emitted]

\* the page is a redirect: it is cached and skipped; else it is an article
\* (process_article in phase1_enhanced.py; inline in phase1_minimal.py)
ArticleStep(st, page) ==
    IF page.redirect_target # None
    THEN [st EXCEPT !.redirects = Put(st.redirects, page.title, page.redirect_target),
                    !.redirects_found = @ + 1]
    ELSE [st EXCEPT !.articles_buffer = Append(@, ArticleOf(page)),
                    !.links_buffer = @ \o LinkRowsOf(page.title, page.links, st.redirects),
                    !.articles_processed = @ + 1,
                    !.emitted = @ \cup {page.id}]

\* one iteration of MinimalParser.process_dump's `for page in dump`, up to the
\* test of the buffer's length
MinimalPageStep(st, page, last_id) ==
    IF st.skip_mode /\ page.id <= last_id THEN st
    ELSE IF page.namespace # 0 THEN [st EXCEPT !.skip_mode = FALSE]
    ELSE ArticleStep([st EXCEPT !.skip_mode = FALSE], page)

\* one iteration of EnhancedParser.process_dump's `for page in dump`: there is
\* no checkpoint test
EnhancedPageStep(st, page) ==
    IF page.namespace # 0 THEN st
    ELSE LET next == ArticleStep(st, page)
         IN  \* self.articles_processed += 1 also follows a redirect
             IF page.redirect_target # None
             THEN [next EXCEPT !.articles_processed = @ + 1] ELSE next

\* `if self.articles_processed >= max_articles: break` (max_articles=None in
\* run_full_dump: `if max_articles and ...` is false)
LimitReached(variant, processed) == variant = "minimal" /\ processed >= max_articles

\* the variables of the process, lost when it ends
procVars == <<p_pos, p_site, p_last_id, p_skip_mode, p_batch_num, p_articles_buffer,
              p_links_buffer, p_articles_processed, p_redirects_found, p_redirects>>

diskVars == <<d_articles, d_links, d_checkpoint, d_redirects>>

histVars == <<g_start, g_emitted, g_batches, g_written, g_runs>>

\* MinimalParser() / ProductionParser(...): a new process
NewProcess ==
    /\ p_pos = 1 /\ p_site = "loop"
    /\ p_last_id = 0 /\ p_skip_mode = FALSE /\ p_batch_num = 1
    /\ p_articles_buffer = <<>> /\ p_links_buffer = <<>>
    /\ p_articles_processed = 0 /\ p_redirects_found = 0 /\ p_redirects = EmptyMap

\* the head of process_dump: last_id = self.load_checkpoint() in
\* phase1_minimal.py, last_id = 0 in phase1_enhanced.py; batch_num = 1
PStartDump ==
    /\ p_pc = "start"
    /\ p_last_id' = IF p_variant = "minimal" THEN load_checkpoint(d_checkpoint) ELSE 0
    /\ p_skip_mode' = (p_variant = "minimal" /\ load_checkpoint(d_checkpoint) > 0)
    /\ p_batch_num' = 1
    /\ p_articles_buffer' = <<>> /\ p_links_buffer' = <<>>
    /\ p_pos' = 1 /\ p_pc' = "pages"
    /\ g_start' = [checkpoint |-> d_checkpoint, articles |-> d_articles, links |-> d_links]
    /\ g_emitted' = {} /\ g_batches' = <<>> /\ g_written' = {}
    /\ UNCHANGED <<p_variant, p_dump, p_run, p_site, p_articles_processed,
                   p_redirects_found, p_redirects, diskVars, g_runs>>
    /\ UNCHANGED <<inVars, xVars, jVars, eVars, sVars, mVars, workVars>>

\* where main() goes when process_dump has returned: phase1_minimal.py saves
\* the final checkpoint (0, 0) and the redirects; run_full_dump prints and ends
AfterDump(variant) ==
    IF variant = "minimal" THEN [pc |-> "ckpt_open", site |-> "main"]
    ELSE [pc |-> "done", site |-> "loop"]

\* one page of `for page in dump`; a full buffer calls write_batch
PPage ==
    /\ p_pc = "pages" /\ p_pos <= Len(p_dump)
    /\ LET st == ParserState(p_skip_mode, p_articles_buffer, p_links_buffer,
                             p_articles_processed, p_redirects_found, p_redirects, g_emitted)
           page == p_dump[p_pos]
           next == IF p_variant = "minimal" THEN MinimalPageStep(st, page, p_last_id)
                   ELSE EnhancedPageStep(st, page)
           appended == Len(next.articles_buffer) > Len(p_articles_buffer)
       IN  /\ p_skip_mode' = next.skip_mode
           /\ p_articles_buffer' = next.articles_buffer
           /\ p_links_buffer' = next.links_buffer
           /\ p_articles_processed' = next.articles_processed
           /\ p_redirects_found' = next.redirects_found
           /\ p_redirects' = next.redirects
           /\ g_emitted' = next.emitted
           /\ IF appended /\ Len(next.articles_buffer) >= ParserBatchSize
              THEN p_pc' = "wb_a_open" /\ p_pos' = p_pos + 1
              ELSE IF LimitReached(p_variant, next.articles_processed)
              THEN p_pc' = "pages" /\ p_pos' = Len(p_dump) + 1      \* break
              ELSE p_pc' = "pages" /\ p_pos' = p_pos + 1
    /\ UNCHANGED <<p_variant, p_dump, p_run, p_site, p_last_id, p_batch_num, diskVars,
                   g_start, g_batches, g_written, g_runs>>
    /\ UNCHANGED <<inVars, xVars, jVars, eVars, sVars, mVars, workVars>>

\* the dump is read to its end: `if articles_buffer: self.write_batch(...)`,
\* the final batch
PEndOfDump ==
    /\ p_pc = "pages" /\ p_pos > Len(p_dump)
    /\ IF p_articles_buffer # <<>>
       THEN p_pc' = "wb_a_open" /\ p_site' = "final"
       ELSE p_pc' = AfterDump(p_variant).pc /\ p_site' = AfterDump(p_variant).site
    /\ g_runs' = IF p_articles_buffer = <<>> /\ AfterDump(p_variant).pc = "done"
                 THEN Append(g_runs, "done") ELSE g_runs
    /\ UNCHANGED <<p_variant, p_dump, p_run, p_pos, p_last_id, p_skip_mode, p_batch_num,
                   p_articles_buffer, p_links_buffer, p_articles_processed,
                   p_redirects_found, p_redirects, diskVars,
                   g_start, g_emitted, g_batches, g_written>>
    /\ UNCHANGED <<inVars, xVars, jVars, eVars, sVars, mVars, workVars>>

\* write_batch: gzip.open(articles_file, 'wt') creates or empties the file
PWbOpenArticles ==
    /\ p_pc = "wb_a_open"
    /\ d_articles' = Put(d_articles, p_batch_num, [lines |-> <<>>, closed |-> FALSE])
    /\ g_batches' = Append(g_batches, p_batch_num)
    /\ p_pc' = "wb_a_write"
    /\ UNCHANGED <<p_variant, p_dump, p_run, procVars, d_links, d_checkpoint, d_redirects,
                   g_start, g_emitted, g_written, g_runs>>
    /\ UNCHANGED <<inVars, xVars, jVars, eVars, sVars, mVars, workVars>>

\* write_batch: every article is written, the file is closed
PWbWriteArticles ==
    /\ p_pc = "wb_a_write"
    /\ d_articles' = Put(d_articles, p_batch_num,
                         [lines |-> p_articles_buffer, closed |-> TRUE])
    /\ p_pc' = "wb_l_open"
    /\ UNCHANGED <<p_variant, p_dump, p_run, procVars, d_links, d_checkpoint, d_redirects,
                   histVars>>
    /\ UNCHANGED <<inVars, xVars, jVars, eVars, sVars, mVars, workVars>>

\* write_batch: gzip.open(links_file, 'wt')
PWbOpenLinks ==
    /\ p_pc = "wb_l_open"
    /\ d_links' = Put(d_links, p_batch_num, [lines |-> <<>>, closed |-> FALSE])
    /\ p_pc' = "wb_l_write"
    /\ UNCHANGED <<p_variant, p_dump, p_run, procVars, d_articles, d_checkpoint,
                   d_redirects, histVars>>
    /\ UNCHANGED <<inVars, xVars, jVars, eVars, sVars, mVars, workVars>>

\* write_batch: writer.writerows(links), the file is closed; `if articles:`
\* holds at both calls, save_checkpoint follows
PWbWriteLinks ==
    /\ p_pc = "wb_l_write"
    /\ d_links' = Put(d_links, p_batch_num, [lines |-> p_links_buffer, closed |-> TRUE])
    /\ p_pc' = "ckpt_open"
    /\ UNCHANGED <<p_variant, p_dump, p_run, procVars, d_articles, d_checkpoint,
                   d_redirects, histVars>>
    /\ UNCHANGED <<inVars, xVars, jVars, eVars, sVars, mVars, workVars>>

\* save_checkpoint: open(self.checkpoint_file, 'w') empties the file
PSaveCheckpointOpen ==
    /\ p_pc = "ckpt_open"
    /\ d_checkpoint' = TruncatedCheckpoint
    /\ p_pc' = "ckpt_dump"
    /\ UNCHANGED <<p_variant, p_dump, p_run, procVars, d_articles, d_links, d_redirects,
                   histVars>>
    /\ UNCHANGED <<inVars, xVars, jVars, eVars, sVars, mVars, workVars>>

\* the checkpoint save_checkpoint writes: (articles[-1]['id'], batch_num) from
\* write_batch, (0, 0) from phase1_minimal.py's main
CheckpointArgs ==
    IF p_site = "main" THEN Checkpoint(0, 0)
    ELSE Checkpoint(p_articles_buffer[Len(p_articles_buffer)].id, p_batch_num)

\* where the caller of save_checkpoint goes on: the loop resets its buffers,
\* increments batch_num and tests max_articles; the final batch is followed by
\* main's tail; main's save_checkpoint(0, 0) by save_redirects()
AfterBatch(site, variant) ==
    IF site = "main" THEN [pc |-> "done", site |-> "loop", reset |-> FALSE]
    ELSE IF site = "final"
    THEN [pc |-> AfterDump(variant).pc, site |-> AfterDump(variant).site, reset |-> FALSE]
    ELSE [pc |-> "pages", site |-> "loop", reset |-> TRUE]

\* save_checkpoint: json.dump(checkpoint, f); then the caller goes on
PSaveCheckpointDump ==
    /\ p_pc = "ckpt_dump"
    /\ d_checkpoint' = CheckpointArgs
    /\ g_written' = g_written \cup {CheckpointArgs}
    /\ LET after == AfterBatch(p_site, p_variant)
       IN  /\ p_pc' = after.pc /\ p_site' = after.site
           /\ p_articles_buffer' = IF after.reset THEN <<>> ELSE p_articles_buffer
           /\ p_links_buffer' = IF after.reset THEN <<>> ELSE p_links_buffer
           /\ p_batch_num' = IF after.reset THEN p_batch_num + 1 ELSE p_batch_num
           /\ p_pos' = IF after.reset /\ LimitReached(p_variant, p_articles_processed)
                       THEN Len(p_dump) + 1 ELSE p_pos
           /\ d_redirects' = IF p_site = "main"
                             THEN [saved |-> TRUE, redirects |-> p_redirects]
                             ELSE d_redirects
           /\ g_runs' = IF after.pc = "done" THEN Append(g_runs, "done") ELSE g_runs
    /\ UNCHANGED <<p_variant, p_dump, p_run, p_last_id, p_skip_mode, p_articles_processed,
                   p_redirects_found, p_redirects, d_articles, d_links,
                   g_start, g_emitted, g_batches>>
    /\ UNCHANGED <<inVars, xVars, jVars, eVars, sVars, mVars, workVars>>

\* Ctrl+C (run_full_dump catches KeyboardInterrupt and exits) or the end of the
\* process by any other cause: what is on disk stays as it is
PInterrupt ==
    /\ p_pc \notin {"done", "stopped"}
    /\ p_pc' = "stopped"
    /\ g_runs' = Append(g_runs, "interrupted")
    /\ UNCHANGED <<p_variant, p_dump, p_run, procVars, diskVars,
                   g_start, g_emitted, g_batches, g_written>>
    /\ UNCHANGED <<inVars, xVars, jVars, eVars, sVars, mVars, workVars>>

\* the same command is started again
PRerun ==
    /\ p_pc \in {"done", "stopped"} /\ p_run < MaxRuns
    /\ p_run' = p_run + 1 /\ p_pc' = "start"
    /\ p_pos' = 1 /\ p_site' = "loop"
    /\ p_last_id' = 0 /\ p_skip_mode' = FALSE /\ p_batch_num' = 1
    /\ p_articles_buffer' = <<>> /\ p_links_buffer' = <<>>
    /\ p_articles_processed' = 0 /\ p_redirects_found' = 0 /\ p_redirects' = EmptyMap
    /\ UNCHANGED <<p_variant, p_dump, diskVars, histVars>>
    /\ UNCHANGED <<inVars, xVars, jVars, eVars, sVars, mVars, workVars>>

\* checkpoint.json is put back to a checkpoint the complete run wrote, for a
\* re-run from that checkpoint
PRestoreCheckpoint ==
    /\ p_pc = "done" /\ p_run < MaxRuns
    /\ \E c \in g_written \ {d_checkpoint} : d_checkpoint' = c
    /\ UNCHANGED <<p_variant, p_dump, p_run, p_pc, procVars, d_articles, d_links,
                   d_redirects, histVars>>
    /\ UNCHANGED <<inVars, xVars, jVars, eVars, sVars, mVars, workVars>>

\* `python3 phase1_minimal.py` or `python3 phase1_production.py` starts in an
\* empty output directory
PStart ==
    /\ p_run = 1 /\ p_pc = "start"
    /\ NewProcess
    /\ d_articles = NoFile /\ d_links = NoFile /\ d_checkpoint = NoCheckpoint
    /\ d_redirects = [saved |-> FALSE, redirects |-> EmptyMap]
    /\ g_start = [checkpoint |-> NoCheckpoint, articles |-> NoFile, links |-> NoFile]
    /\ g_emitted = {} /\ g_batches = <<>> /\ g_written = {} /\ g_runs = <<>>

(***************************************************************************)
(* core/parser.py: page_generator(f) cuts the decompressed dump into page  *)
(* records.  A byte is a one-character string; the sizes 4 MiB and 20 MiB  *)
(* are scaled to ChunkBytes and CeilingBytes.                              *)
(***************************************************************************)
\* f.read(4 * 1024 * 1024)
ChunkBytes == 4
\* len(buffer) > 20 * 1024 * 1024
CeilingBytes == 20
\* pieces a stream of the model is made of
MaxPieces == 3

PAGE_START == <<"<", "p", "a", "g", "e", ">">>

PAGE_END == <<"<", "/", "p", "a", "g", "e", ">">>

\* b'<page xmlns="http://www.mediawiki.org/xml/export-0.11/">', as one element
PAGE_START_XMLNS == <<"<page xmlns=\"http://www.mediawiki.org/xml/export-0.11/\">">>

\* n bytes that are part of no marker
Filler(n) == [i \in 1..n |-> "x"]

PageRecord(body) == PAGE_START \o body \o PAGE_END

\* the pieces: text between records, page records, a page record whose body
\* alone fills the buffer up to the ceiling, and the end of a record whose
\* start lies before the offset the stream was opened at (--offset)
PieceChoices ==
    {[kind |-> "junk", text |-> Filler(1)],
     [kind |-> "page", text |-> PageRecord(<<"a">>)],
     [kind |-> "page", text |-> PageRecord(<<"b", "b">>)],
     [kind |-> "big", text |-> PageRecord(Filler(CeilingBytes - 4))],
     [kind |-> "tail", text |-> Filler(1) \o PAGE_END]}

\* the streams: a record's tail can only come first
Streams ==
    {ps \in SeqUpTo(PieceChoices, MaxPieces) :
        \A i \in DOMAIN ps : ps[i].kind = "tail" => i = 1}

RECURSIVE Flatten(_)
Flatten(pieces) ==
    IF pieces = <<>> THEN <<>> ELSE Head(pieces).text \o Flatten(Tail(pieces))

\* bytes.find(sub): the lowest index (from 0) where sub starts, -1 if nowhere
find(buffer, sub) ==
    LET hits == {i \in 1..(Len(buffer) - Len(sub) + 1) :
                    SubSeq(buffer, i, i + Len(sub) - 1) = sub}
    IN  IF hits = {} THEN -1 ELSE (CHOOSE i \in hits : \A j \in hits : i <= j) - 1

\* bytes.replace(b'<page>', b'<page xmlns=...>'): every occurrence, left to right
RECURSIVE ReplacePageStart(_)
ReplacePageStart(span) ==
    LET s == find(span, PAGE_START)
    IN  IF s = -1 THEN span
        ELSE SubSeq(span, 1, s) \o PAGE_START_XMLNS
             \o ReplacePageStart(SubSeq(span, s + Len(PAGE_START) + 1, Len(span)))

\* (mutant) after a yield the whole buffer is dropped, buffer = b"", instead of
\* buffer[e+7:]: the bytes read after the end marker are lost
ScanBuffer_DropsRest(buffer, spans) ==
    LET s == find(buffer, PAGE_START)
        e == find(buffer, PAGE_END)
    IN  IF s # -1 /\ e # -1 /\ e > s
        THEN [buffer |-> <<>>,
              spans |-> Append(spans, SubSeq(buffer, s + 1, e + 7))]
        ELSE [buffer |-> buffer, spans |-> spans]

\* the inner `while True`: spans buffer[s:e+7] are cut off the front of the
\* buffer as long as a start marker is found with an end marker after it
RECURSIVE ScanBuffer(_, _)
ScanBuffer(buffer, spans) ==
    LET s == find(buffer, PAGE_START)
        e == find(buffer, PAGE_END)
    IN  IF s # -1 /\ e # -1 /\ e > s
        THEN ScanBuffer(SubSeq(buffer, e + 8, Len(buffer)),
                        Append(spans, SubSeq(buffer, s + 1, e + 7)))
        ELSE [buffer |-> buffer, spans |-> spans]

\* one iteration of the outer `while True`: a read of up to ChunkBytes bytes,
\* the scan with its yields, and the ceiling test
SChunk ==
    /\ s_pc = "read" /\ s_pos < Len(Flatten(s_pieces))
    /\ \E n \in 1..ChunkBytes :
          LET stream == Flatten(s_pieces)
              to == IF s_pos + n > Len(stream) THEN Len(stream) ELSE s_pos + n
              chunk == SubSeq(stream, s_pos + 1, to)
              scanned == ScanBuffer(s_buffer \o chunk, <<>>)
              over == Len(scanned.buffer) > CeilingBytes
          IN  /\ s_pos' = to
              /\ s_spans' = s_spans \o scanned.spans
              /\ s_yielded' = s_yielded
                     \o [i \in DOMAIN scanned.spans |-> ReplacePageStart(scanned.spans[i])]
              /\ s_buffer' = IF over THEN <<>> ELSE scanned.buffer
              /\ s_discards' = IF over
                               THEN Append(s_discards,
                                           [pos |-> to,
                                            yielded |-> Len(s_yielded) + Len(scanned.spans)])
                               ELSE s_discards
    /\ UNCHANGED <<s_pieces, s_pc>>
    /\ UNCHANGED <<inVars, xVars, jVars, eVars, pVars, mVars, workVars>>

\* f.read returns b"": `if not chunk: break`; what is left in the buffer is dropped
SEnd ==
    /\ s_pc = "read" /\ s_pos = Len(Flatten(s_pieces))
    /\ s_pc' = "end"
    /\ UNCHANGED <<s_pieces, s_pos, s_buffer, s_spans, s_yielded, s_discards>>
    /\ UNCHANGED <<inVars, xVars, jVars, eVars, pVars, mVars, workVars>>

\* page_generator(f) is called
SStart ==
    /\ s_pc = "read" /\ s_pos = 0 /\ s_buffer = <<>>
    /\ s_spans = <<>> /\ s_yielded = <<>> /\ s_discards = <<>>

(***************************************************************************)
(* core/parser.py: the worker parse_page_xml and the loop of main over the *)
(* results of pool.imap_unordered, which reach the loop in any order.      *)
(***************************************************************************)
MaxPages == 3

worker_lang == "pl"

\* the text of a revision: whether a redirect keyword stands in its first 300
\* characters, and the targets of its [[...]] links in order
Text(keyword, links) == [empty |-> FALSE, keyword |-> keyword, links |-> links]

EmptyText == [empty |-> TRUE, keyword |-> FALSE, links |-> <<>>]

\* page i of the dump, of one of five kinds; titles are those of the dump, one
\* per page
PoolPage(i, kind) ==
    [id |-> i,
     title |-> "T" \o ToString(i),
     ns |-> IF kind = "talk" THEN "1" ELSE "0",
     has_rev |-> kind # "norev",
     text |-> CASE kind = "article" -> Text(FALSE, IF i = 1 THEN <<"T2", "T9">> ELSE <<"T1">>)
                [] kind = "redirect" -> Text(TRUE, IF i = 2 THEN <<>> ELSE <<"T1">>)
                [] OTHER -> EmptyText]

PageKinds == {"article", "redirect", "talk", "norev", "empty"}

PoolDumps ==
    {[i \in 1..MaxPages |-> PoolPage(i, kinds[i])] : kinds \in [1..MaxPages -> PageKinds]}

NoResult == [type |-> "none", data |-> <<>>]

\* parse_page_xml(page_xml): None, ('redirect', (title, target)) or
\* ('article', (article_data, links))
parse_page_xml(page) ==
    IF page.ns # "0" THEN NoResult
    ELSE IF ~page.has_rev THEN NoResult
    ELSE IF page.text.empty THEN NoResult
    ELSE IF page.text.keyword
         THEN [type |-> "redirect",
               data |-> <<page.title,
                          IF page.text.links = <<>> THEN None ELSE page.text.links[1]>>]
         ELSE [type |-> "article",
               data |-> <<[id |-> page.id, title |-> page.title, language |-> worker_lang],
                          page.text.links>>]

\* gzip.open(path, 'wt') and the writes: the file of that number holds `lines`
WriteFile(files, batch_num, lines) ==
    [b \in DOMAIN files \cup {batch_num} |-> IF b = batch_num THEN lines ELSE files[b]]

LinkFileRows(links_buffer) ==
    [i \in DOMAIN links_buffer |-> <<links_buffer[i][1], links_buffer[i][2], worker_lang>>]

\* what the loop holds and has written
PoolState(articles_buffer, links_buffer, batch_num, articles_files, links_files, redirect_file) ==
    [articles_buffer |-> articles_buffer, links_buffer |-> links_buffer,
     batch_num |-> batch_num, articles_files |-> articles_files,
     links_files |-> links_files, redirect_file |-> redirect_file]

\* (mutant) the `else` is lost: a redirect's row is written and the page is
\* buffered as an article as well
HandleResult_RedirectBuffered(st, result, batch_size) ==
    IF result.type = "none" THEN st
    ELSE IF result.type = "redirect"
    THEN [st EXCEPT !.redirect_file = Append(@, result.data),
                    !.articles_buffer =
                        Append(@, [id |-> 0, title |-> result.data[1],
                                   language |-> worker_lang])]
    ELSE [st EXCEPT !.articles_buffer = Append(@, result.data[1])]

\* (mutant) the buffer is written when it holds more than batch_size records
HandleResult_FlushLate(st, result, batch_size) ==
    IF result.type = "none" THEN st
    ELSE IF result.type = "redirect"
    THEN [st EXCEPT !.redirect_file = Append(@, result.data)]
    ELSE LET articles == Append(st.articles_buffer, result.data[1])
         IN  IF Len(articles) > batch_size
             THEN [st EXCEPT !.articles_files = WriteFile(@, st.batch_num, articles),
                             !.articles_buffer = <<>>,
                             !.batch_num = @ + 1]
             ELSE [st EXCEPT !.articles_buffer = articles]

\* the body of the for loop for one result
HandleResult(st, result, batch_size) ==
    IF result.type = "none" THEN st
    ELSE IF result.type = "redirect"
    THEN [st EXCEPT !.redirect_file = Append(@, result.data)]
    ELSE LET articles == Append(st.articles_buffer, result.data[1])
             links == st.links_buffer
                      \o [i \in DOMAIN result.data[2] |->
                             <<result.data[1].title, result.data[2][i]>>]
         IN  IF Len(articles) >= batch_size
             THEN [st EXCEPT !.articles_files = WriteFile(@, st.batch_num, articles),
                             !.links_files = WriteFile(@, st.batch_num, LinkFileRows(links)),
                             !.articles_buffer = <<>>,
                             !.links_buffer = <<>>,
                             !.batch_num = @ + 1]
             ELSE [st EXCEPT !.articles_buffer = articles, !.links_buffer = links]

\* (mutant) the buffer left at the end of the loop is not written
FinalFlush_Skipped(st) == st

\* `if articles_buffer:` after the loop
FinalFlush(st) ==
    IF st.articles_buffer # <<>>
    THEN [st EXCEPT !.articles_files = WriteFile(@, st.batch_num, st.articles_buffer),
                    !.links_files = WriteFile(@, st.batch_num, LinkFileRows(st.links_buffer))]
    ELSE st

PoolNow ==
    PoolState(m_articles_buffer, m_links_buffer, m_batch_num, m_articles_files,
              m_links_files, m_redirect_file)

PoolBecomes(st) ==
    /\ m_articles_buffer' = st.articles_buffer
    /\ m_links_buffer' = st.links_buffer
    /\ m_batch_num' = st.batch_num
    /\ m_articles_files' = st.articles_files
    /\ m_links_files' = st.links_files
    /\ m_redirect_file' = st.redirect_file

\* the pool takes the next page from page_generator and hands it to a worker
MSubmit ==
    /\ m_pc = "loop" /\ m_next < Len(m_pages)
    /\ m_next' = m_next + 1
    /\ m_inflight' = m_inflight \cup {m_next + 1}
    /\ UNCHANGED <<m_pages, m_pc, m_articles_buffer, m_links_buffer, m_batch_num,
                   m_articles_files, m_links_files, m_redirect_file>>
    /\ UNCHANGED <<inVars, xVars, jVars, eVars, pVars, sVars, workVars>>

\* imap_unordered hands the loop the result of any page a worker was given
MResult ==
    /\ m_pc = "loop"
    /\ \E i \in m_inflight :
          /\ m_inflight' = m_inflight \ {i}
          /\ PoolBecomes(HandleResult(PoolNow, parse_page_xml(m_pages[i]), ParserBatchSize))
    /\ UNCHANGED <<m_pages, m_pc, m_next>>
    /\ UNCHANGED <<inVars, xVars, jVars, eVars, pVars, sVars, workVars>>

\* the generator is exhausted and every result was handled: the loop ends and
\* the rest of the buffer is written
MFinish ==
    /\ m_pc = "loop" /\ m_next = Len(m_pages) /\ m_inflight = {}
    /\ m_pc' = "done"
    /\ PoolBecomes(FinalFlush(PoolNow))
    /\ UNCHANGED <<m_pages, m_next, m_inflight>>
    /\ UNCHANGED <<inVars, xVars, jVars, eVars, pVars, sVars, workVars>>

\* main up to the loop: empty buffers, batch_num 1, a new output directory
MStart ==
    /\ m_pc = "loop" /\ m_next = 0 /\ m_inflight = {}
    /\ m_articles_buffer = <<>> /\ m_links_buffer = <<>> /\ m_batch_num = 1
    /\ m_articles_files = <<>> /\ m_links_files = <<>> /\ m_redirect_file = <<>>

(***************************************************************************)
(* graph_engine.py: process_concept_batch, process_article_batch and       *)
(* process_link_batch as tasks of a process pool, each with its driver.    *)
(*                                                                         *)
(* st of a task: "pending"   submitted, no worker has called the function  *)
(*               "try"       the driver is created; in execute_with_retry  *)
(*               "returned"  execute_with_retry returned                   *)
(*               "raised"    an exception is leaving the try block         *)
(*               "done", "failed"   the task has ended                     *)
(***************************************************************************)
MaxTasks == 2

WorkerQids == {"Q1", "Q2", "Q3"}

WorkerArticleRows ==
    {[qid |-> "Q1", art_id |-> "pl:1", title |-> "Big Apple"],
     [qid |-> "Q2", art_id |-> "pl:2", title |-> "Banana"],
     [qid |-> "Q3", art_id |-> "pl:3", title |-> "Cherry"]}

WorkerLinkRows ==
    {[sqid |-> "Q1", tqid |-> "Q2"], [sqid |-> "Q2", tqid |-> "Q3"],
     [sqid |-> "Q2", tqid |-> "Q1"]}

\* the batches a task is given: a list(set(...)) of ConceptIds, or a list of rows
WorkerBatches(phase) ==
    CASE phase = "concepts" -> (SUBSET WorkerQids) \ {{}}
      [] phase = "articles" -> SeqUpTo(WorkerArticleRows, 2) \ {<<>>}
      [] phase = "links" -> SeqUpTo(WorkerLinkRows, 2) \ {<<>>}

StoreWith(qids) == [EmptyStore EXCEPT !.concepts = [q \in qids |-> 1]]

\* the store when the tasks are submitted: before the concepts phase, and
\* after it with or without a Concept for Q3
WorkerStores(phase) ==
    IF phase = "concepts" THEN {EmptyStore, StoreWith({"Q1"})}
    ELSE {StoreWith({"Q1", "Q2"}), StoreWith(WorkerQids)}

NoDriver == 0

WorkerTask(batch) == [batch |-> batch, st |-> "pending", attempt |-> 0, driver |-> NoDriver]

\* GraphDatabase.driver(uri, auth=..., ...)
NewDriver(t) == [owner |-> t, open |-> TRUE, users |-> {}]

\* (mutant) driver.close() follows execute_with_retry without try/finally
ClosesDriver_NoFinally(st) == st = "returned"

\* try: execute_with_retry(...) finally: driver.close()
ClosesDriver(st) == st \in {"returned", "raised"}

\* a worker calls the function with every argument: the driver is created
KCall(t) ==
    /\ k_tasks[t].st = "pending" /\ k_complete_args
    /\ k_drivers' = Append(k_drivers, NewDriver(t))
    /\ k_tasks' = [k_tasks EXCEPT ![t].st = "try", ![t].driver = Len(k_drivers) + 1]
    /\ UNCHANGED <<k_phase, k_complete_args, k_store, k_store0, k_faults>>
    /\ UNCHANGED <<inVars, xVars, jVars, eVars, parserVars, fVars, fnVars>>

\* executor.submit(process_concept_batch, batch) as test_multiprocessing_fix.py
\* and demonstrate_fix.py call it: uri, user, password and max_connections
\* are missing and the call raises TypeError before the body runs
KBadCall(t) ==
    /\ k_tasks[t].st = "pending" /\ ~k_complete_args
    /\ k_tasks' = [k_tasks EXCEPT ![t].st = "failed"]
    /\ UNCHANGED <<k_phase, k_complete_args, k_drivers, k_store, k_store0, k_faults>>
    /\ UNCHANGED <<inVars, xVars, jVars, eVars, parserVars, fVars, fnVars>>

\* with driver.session() as session: session.run(query, ...) on the task's own
\* driver
UseDriver(t) ==
    [k_drivers EXCEPT ![k_tasks[t].driver].users = @ \cup {t}]

\* (mutant) the write is computed from the store as it was when the tasks were
\* submitted and replaces the store: the other tasks' writes are lost
KRunOk_LostUpdate(t) ==
    /\ k_tasks[t].st = "try"
    /\ k_drivers' = UseDriver(t)
    /\ k_store' = Write(k_store0, k_phase, k_tasks[t].batch, worker_lang)
    /\ k_tasks' = [k_tasks EXCEPT ![t].st = "returned"]
    /\ UNCHANGED <<k_phase, k_complete_args, k_store0, k_faults>>
    /\ UNCHANGED <<inVars, xVars, jVars, eVars, parserVars, fVars, fnVars>>

\* execute_with_retry: session.run succeeds, return
KRunOk(t) ==
    /\ k_tasks[t].st = "try"
    /\ k_drivers' = UseDriver(t)
    /\ k_store' = Write(k_store, k_phase, k_tasks[t].batch, worker_lang)
    /\ k_tasks' = [k_tasks EXCEPT ![t].st = "returned"]
    /\ UNCHANGED <<k_phase, k_complete_args, k_store0, k_faults>>
    /\ UNCHANGED <<inVars, xVars, jVars, eVars, parserVars, fVars, fnVars>>

\* session.run raises TransientError or ServiceUnavailable (the store may have
\* committed the write): `if attempt == max_retries - 1: raise`, else sleep
\* and the next attempt
KRunTransient(t) ==
    /\ k_tasks[t].st = "try" /\ k_faults < MaxFaults
    /\ k_faults' = k_faults + 1
    /\ k_drivers' = UseDriver(t)
    /\ \E committed \in BOOLEAN :
          k_store' = IF committed
                     THEN Write(k_store, k_phase, k_tasks[t].batch, worker_lang)
                     ELSE k_store
    /\ k_tasks' = IF k_tasks[t].attempt = max_retries - 1
                  THEN [k_tasks EXCEPT ![t].st = "raised"]
                  ELSE [k_tasks EXCEPT ![t].attempt = @ + 1]
    /\ UNCHANGED <<k_phase, k_complete_args, k_store0>>
    /\ UNCHANGED <<inVars, xVars, jVars, eVars, parserVars, fVars, fnVars>>

\* session.run raises an error the except clause does not name
KRunFatal(t) ==
    /\ k_tasks[t].st = "try" /\ k_faults < MaxFaults
    /\ k_faults' = k_faults + 1
    /\ k_drivers' = UseDriver(t)
    /\ k_tasks' = [k_tasks EXCEPT ![t].st = "raised"]
    /\ UNCHANGED <<k_phase, k_complete_args, k_store, k_store0>>
    /\ UNCHANGED <<inVars, xVars, jVars, eVars, parserVars, fVars, fnVars>>

\* the try block is left: driver.close() in its finally clause, and the task
\* ends with the function's return or its exception
KEnd(t) ==
    /\ k_tasks[t].st \in {"returned", "raised"}
    /\ k_drivers' = IF ClosesDriver(k_tasks[t].st)
                    THEN [k_drivers EXCEPT ![k_tasks[t].driver].open = FALSE]
                    ELSE k_drivers
    /\ k_tasks' = [k_tasks EXCEPT
                      ![t].st = IF k_tasks[t].st = "returned" THEN "done" ELSE "failed"]
    /\ UNCHANGED <<k_phase, k_complete_args, k_store, k_store0, k_faults>>
    /\ UNCHANGED <<inVars, xVars, jVars, eVars, parserVars, fVars, fnVars>>

\* no task is submitted
KIdle ==
    /\ k_phase = "concepts" /\ k_complete_args = TRUE
    /\ k_tasks = <<>> /\ k_drivers = <<>>
    /\ k_store = EmptyStore /\ k_store0 = EmptyStore /\ k_faults = 0

\* every file of the input is there and whole
FIdle == f_missing = {} /\ f_corrupt = NoCorrupt

\* the programs of the later sections are not run
\* resolve_redirect is not called
RIdle ==
    /\ r_redirects = <<>> /\ r_original = "" /\ r_link = ""
    /\ r_visited = {} /\ r_hops = 0 /\ r_pc = "idle" /\ r_result = ""

\* no text is searched for links
LIdle ==
    /\ l_variant = "core" /\ l_forms = <<>> /\ l_pos = 0
    /\ l_found = <<>> /\ l_links = <<>> /\ l_pc = "idle"

\* _create_batches is not called
CIdle ==
    /\ c_lang = "pl" /\ c_file = <<>> /\ c_mode = "articles" /\ c_batch_size = 1
    /\ c_qmap = EmptyMap /\ c_tmap = EmptyMap
    /\ c_batches = <<>> /\ c_pc = "idle"

FnIdle == RIdle /\ LIdle /\ CIdle

WorkIdle == KIdle /\ FIdle /\ FnIdle

\* the parsers are not run
ParsersIdle ==
    /\ p_variant = "minimal" /\ p_dump = <<>> /\ PStart
    /\ s_pieces = <<>> /\ SStart
    /\ m_pages = <<>> /\ MStart

(***************************************************************************)
(* Initial states and the specification of the ingestion run.              *)
(***************************************************************************)
LinkRowChoices == Titles \X Titles

\* `python3 core/bulk_exporter.py pl` starts
XStart ==
    /\ x_pc = "load" /\ x_file = 0 /\ x_row = 0
    /\ x_qid_map = EmptyMap /\ x_title_map = EmptyMap /\ seen_concepts = {}
    /\ w_concepts = <<>> /\ w_articles = <<>> /\ w_edges_rep = <<>> /\ w_edges_links = <<>>
    /\ link_count = 0 /\ resolved_count = 0

\* `python3 core/tools/prepare_neo4j_csv.py --lang pl` starts
JStart ==
    /\ j_pc = "load" /\ j_row = 0
    /\ id_map = EmptyMap /\ title_map = EmptyMap /\ target_map = EmptyMap
    /\ j_nodes = {} /\ j_edges = <<>>
    /\ edge_count = 0 /\ miss_count = 0 /\ skipped_ns = 0 /\ total_processed = 0

\* `python3 ingest.py pl de` starts: the module globals are empty dicts
EStart ==
    /\ e_pc = "load" /\ e_li = 1 /\ e_phase = "concepts" /\ e_file = 1 /\ e_pos = 0
    /\ qid_map_global = EmptyMap /\ title_qid_map_global = EmptyMap
    /\ tasks = [k \in {} |-> NewTask(<<>>)]
    /\ store = EmptyStore
    /\ faults = 0

\* the links files of the ingestion runs with store errors
IngestLinkRows ==
    { << <<"Big Apple", "Banana">>, <<"Banana", "Cherry">> >> }

Init ==
    /\ WorkIdle
    /\ prog = "engine"
    /\ linkRows \in IngestLinkRows
    /\ mapped = {1, 2}
    /\ XStart /\ JStart /\ EStart
    /\ ParsersIdle

EngineNext ==
    \/ ELoadResolver
    \/ EBuildTitleMap
    \/ EOpenFile
    \/ ENextPhase
    \/ \E k \in DOMAIN tasks : EStartTask(k)
    \/ \E k \in DOMAIN tasks : EAttemptOk(k)
    \/ ECollect
    \/ ECloseFile

Next ==
    \/ EngineNext
    \/ \E k \in DOMAIN tasks : EAttemptTransient(k)
    \/ \E k \in DOMAIN tasks : EWake(k)
    \/ \E k \in DOMAIN tasks : EAttemptFatal(k)
    \/ ECollectFailure
    \/ EUnwound

Spec == Init /\ [][Next]_vars

(***************************************************************************)
(* Claims about the ingestion run (specification Spec).                    *)
(***************************************************************************)
\* a worker has taken the batch: its write is on its way to the store
Sent(k) == tasks[k].st \in {"running", "backoff", "done", "failed"}

PhaseIdx(phase) == CHOOSE i \in DOMAIN Phases : Phases[i] = phase

\* the number of batches _create_batches makes of an articles shard
NumArticleBatches(lang, f) ==
    Len(CreateBatches(ArticleFiles(lang)[f], BatchSize, lang, "articles", EmptyMap, EmptyMap))

\* every batch of every articles shard of the language has been written in `phase`
AllBatchesDone(li, phase) ==
    \A f \in DOMAIN ArticleFiles(Languages[li]) :
        \A i \in 1..NumArticleBatches(Languages[li], f) :
            /\ <<li, phase, f, i>> \in DOMAIN tasks
            /\ tasks[<<li, phase, f, i>>].st = "done"

\* C1: within one language no Article batch is sent to the store before every
\* Concept batch of every articles shard has completed, and no Link batch
\* before every Article batch has completed, whatever the pool's scheduling.
C1_PhaseOrder ==
    \A k \in DOMAIN tasks :
        /\ (k[2] = "articles" /\ Sent(k)) => AllBatchesDone(k[1], "concepts")
        /\ (k[2] = "links" /\ Sent(k)) => AllBatchesDone(k[1], "articles")

\* a Link batch is in a worker after a Concept batch of the language was retried
C1_Witness ==
    \E k \in DOMAIN tasks :
        /\ k[2] = "links" /\ tasks[k].st = "running"
        /\ \E j \in DOMAIN tasks : j[1] = k[1] /\ j[2] = "concepts" /\ tasks[j].attempt > 0

C2_Inv ==
    \A k \in DOMAIN tasks :
        /\ tasks[k].attempt \in 0..(max_retries - 1)
        /\ tasks[k].st = "done" => tasks[k].ok
        /\ (tasks[k].st = "failed" /\ tasks[k].err = "transient")
               => tasks[k].attempt = max_retries - 1
        /\ tasks[k].st = "backoff" => tasks[k].attempt < max_retries - 1

C2_Step ==
    \A k \in DOMAIN tasks :
        \* a transient error in this step
        /\ (tasks[k].st = "running" /\ faults' = faults + 1 /\ tasks'[k] # tasks[k]
                /\ tasks'[k].err = "transient")
            => IF tasks[k].attempt < max_retries - 1
               THEN tasks'[k].st = "backoff" /\ tasks'[k].attempt = tasks[k].attempt
               ELSE tasks'[k].st = "failed"
        \* the sleep is followed by the next attempt
        /\ (tasks[k].st = "backoff" /\ tasks'[k] # tasks[k])
            => tasks'[k].st = "running" /\ tasks'[k].attempt = tasks[k].attempt + 1

\* C2: execute_with_retry makes at most max_retries = 5 attempts; a transient
\* error on one of the first four is followed by a sleep and another attempt,
\* one on the fifth is raised to the caller; it returns normally only when an
\* attempt succeeded.
C2_Retry == [](C2_Inv) /\ [][C2_Step]_vars

\* a batch failed on its fifth attempt
C2_Witness ==
    \E k \in DOMAIN tasks :
        tasks[k].st = "failed" /\ tasks[k].err = "transient"
            /\ tasks[k].attempt = max_retries - 1

\* j is a batch of a later shard file or of a later phase (or language) than k
Later(j, k) ==
    \/ j[1] > k[1]
    \/ j[1] = k[1] /\ PhaseIdx(j[2]) > PhaseIdx(k[2])
    \/ j[1] = k[1] /\ j[2] = k[2] /\ j[3] > k[3]

\* C3: once a batch write has failed, ingest_language never returns normally
\* (the run stays in the failed batch's file until it raises), and no batch of
\* a later shard file or of a later phase is submitted.
C3_FailureStops ==
    \A k \in DOMAIN tasks :
        tasks[k].st = "failed" =>
            /\ e_pc \in {"collect", "unwind", "raised"}
            /\ k[1] = e_li /\ k[2] = e_phase /\ k[3] = e_file
            /\ \A j \in DOMAIN tasks : ~Later(j, k)
            /\ (prog = "end" => e_pc = "raised")

\* the run has raised because a batch ran out of retries, while another batch
\* of the same file was written after the failure was already there
C3_Witness ==
    /\ e_pc = "raised"
    /\ \E k \in DOMAIN tasks :
          /\ tasks[k].st = "failed" /\ tasks[k].err = "transient"
          /\ \E j \in DOMAIN tasks : j # k /\ j[3] = k[3] /\ j[2] = k[2] /\ tasks[j].st = "done"

\* C4: applying a batch to the store a second time (a retry after a commit
\* whose answer was lost, or a re-run of the ingestion) leaves the Concept
\* nodes, Article nodes, REPRESENTS and LINKS_TO edges as one application does.
C4_Idempotent ==
    \A k \in DOMAIN tasks :
        LET once == Write(store, k[2], tasks[k].batch, Languages[k[1]])
        IN  Write(once, k[2], tasks[k].batch, Languages[k[1]]) = once

\* a batch is being retried although the store already holds its write
C4_Witness ==
    \E k \in DOMAIN tasks :
        /\ tasks[k].st = "running" /\ tasks[k].attempt > 0
        /\ k[2] = "articles"
        /\ Write(store, k[2], tasks[k].batch, Languages[k[1]]) = store

(***************************************************************************)
(* The specification of link resolution: the bulk exporter followed by the *)
(* SQL-join generator on the same input, or the engine's ingestion run     *)
(* with a store that does not fail.                                        *)
(***************************************************************************)
InitResolve ==
    /\ WorkIdle
    /\ prog \in {"exporter", "engine"}
    /\ linkRows \in SeqUpTo(LinkRowChoices, MaxLinks)
    /\ mapped \in SUBSET PageIds
    /\ XStart /\ JStart /\ EStart
    /\ ParsersIdle

NextResolve ==
    \/ XLoadQidMap \/ XBuildTitleMap \/ XExportNodes
    \/ XExportLinkRow \/ XNextLinkFile \/ XFinish
    \/ JLoad \/ JRow \/ JFinish
    \/ EngineNext

SpecResolve == InitResolve /\ [][NextResolve]_vars

(***************************************************************************)
(* The specification of the checkpointing parsers: one of the two commands *)
(* is run on a dump, interrupted or not, and run again.                    *)
(***************************************************************************)
InitCheckpoint ==
    /\ WorkIdle
    /\ prog = "end" /\ linkRows = <<>> /\ mapped = {}
    /\ XStart /\ JStart /\ EStart
    /\ p_variant \in {"minimal", "production"}
    /\ p_dump \in Dumps
    /\ PStart
    /\ s_pieces = <<>> /\ SStart
    /\ m_pages = <<>> /\ MStart

NextCheckpoint ==
    \/ PStartDump \/ PPage \/ PEndOfDump
    \/ PWbOpenArticles \/ PWbWriteArticles \/ PWbOpenLinks \/ PWbWriteLinks
    \/ PSaveCheckpointOpen \/ PSaveCheckpointDump
    \/ PInterrupt \/ PRerun \/ PRestoreCheckpoint

SpecCheckpoint == InitCheckpoint /\ [][NextCheckpoint]_vars

(***************************************************************************)
(* The specification of page_generator over the streams.                   *)
(***************************************************************************)
InitStream ==
    /\ WorkIdle
    /\ prog = "end" /\ linkRows = <<>> /\ mapped = {}
    /\ XStart /\ JStart /\ EStart
    /\ p_variant = "minimal" /\ p_dump = <<>> /\ PStart
    /\ s_pieces \in Streams
    /\ SStart
    /\ m_pages = <<>> /\ MStart

NextStream == SChunk \/ SEnd

SpecStream == InitStream /\ [][NextStream]_vars

(***************************************************************************)
(* The specification of main's loop over the results of the worker pool.   *)
(***************************************************************************)
InitPool ==
    /\ WorkIdle
    /\ prog = "end" /\ linkRows = <<>> /\ mapped = {}
    /\ XStart /\ JStart /\ EStart
    /\ p_variant = "minimal" /\ p_dump = <<>> /\ PStart
    /\ s_pieces = <<>> /\ SStart
    /\ m_pages \in PoolDumps
    /\ MStart

NextPool == MSubmit \/ MResult \/ MFinish

SpecPool == InitPool /\ [][NextPool]_vars

(***************************************************************************)
(* The specification of the batching of both parsers: core/parser.py or    *)
(* phase1_production.py is run on a dump.                                  *)
(***************************************************************************)
InitBatching ==
    /\ WorkIdle
    /\ prog = "end" /\ linkRows = <<>> /\ mapped = {}
    /\ XStart /\ JStart /\ EStart
    /\ s_pieces = <<>> /\ SStart
    /\ PStart /\ MStart
    /\ \/ p_variant = "minimal" /\ p_dump = <<>> /\ m_pages \in PoolDumps
       \/ p_variant = "production" /\ p_dump \in Dumps /\ m_pages = <<>>

NextBatching ==
    \/ m_pages # <<>> /\ NextPool
    \/ p_dump # <<>> /\ NextCheckpoint

SpecBatching == InitBatching /\ [][NextBatching]_vars

(***************************************************************************)
(* The specification of the batch tasks: a pool runs MaxTasks tasks of one *)
(* phase on a store.                                                       *)
(***************************************************************************)
InitWorker ==
    /\ prog = "end" /\ linkRows = <<>> /\ mapped = {}
    /\ XStart /\ JStart /\ EStart
    /\ ParsersIdle
    /\ k_phase \in {"concepts", "articles", "links"}
    /\ k_complete_args \in BOOLEAN
    /\ k_tasks \in [1..MaxTasks -> {WorkerTask(b) : b \in WorkerBatches(k_phase)}]
    /\ k_drivers = <<>>
    /\ k_store \in WorkerStores(k_phase)
    /\ k_store0 = k_store
    /\ k_faults = 0
    /\ FIdle /\ FnIdle

NextWorker ==
    \/ \E t \in DOMAIN k_tasks : KCall(t)
    \/ \E t \in DOMAIN k_tasks : KBadCall(t)
    \/ \E t \in DOMAIN k_tasks : KRunOk(t)
    \/ \E t \in DOMAIN k_tasks : KRunTransient(t)
    \/ \E t \in DOMAIN k_tasks : KRunFatal(t)
    \/ \E t \in DOMAIN k_tasks : KEnd(t)

SpecWorker == InitWorker /\ [][NextWorker]_vars

(***************************************************************************)
(* The specification of the exporter and of the ingestion run on damaged   *)
(* input: a QID file is missing, or a line of a shard is not JSON.         *)
(***************************************************************************)
InitDegraded ==
    /\ KIdle /\ FnIdle
    /\ prog \in {"exporter", "engine"}
    /\ linkRows \in IngestLinkRows
    /\ mapped = {1, 2}
    /\ f_missing \in SUBSET Range(Languages)
    /\ f_corrupt \in CorruptChoices
    /\ XStart /\ JStart /\ EStart
    /\ ParsersIdle

NextDegraded ==
    \/ NextResolve
    \/ XLoadQidMapRaises
    \/ ELoadResolverRaises
    \/ EBuildTitleMapRaises

SpecDegraded == InitDegraded /\ [][NextDegraded]_vars

(***************************************************************************)
(* resolve_redirect, one hop at a time                                     *)
(*   (scripts/phase1_enhanced.py:180-194, archive/phase1_minimal.py:121-138)*)
(*                                                                         *)
(*     original = link; visited = set(); hops = 0; max_hops = 5            *)
(*     while link in self.redirects and link not in visited:               *)
(*         visited.add(link); link = self.redirects[link]; hops += 1       *)
(*         if hops >= max_hops: return original                            *)
(*     return link                                                         *)
(***************************************************************************)
\* titles of the redirect maps the model calls resolve_redirect on
NTitles == 7

ChainTitle(i) == "T" \o ToString(i)

ChainTitles == {ChainTitle(i) : i \in 1..NTitles}

\* self.redirects: every title is no redirect, or redirects to the next title,
\* to the first one, or to itself: chains of up to NTitles - 1 hops, cycles
\* and self-redirects
RedirectTargets(i) ==
    {None, ChainTitle(1), ChainTitle(i)} \cup (IF i < NTitles THEN {ChainTitle(i + 1)} ELSE {})

RedirectMaps ==
    {[t \in {ChainTitle(i) : i \in {j \in 1..NTitles : c[j] # None}} |->
          c[CHOOSE i \in 1..NTitles : ChainTitle(i) = t]] :
        c \in {d \in [1..NTitles -> ChainTitles \cup {None}] :
                  \A i \in 1..NTitles : d[i] \in RedirectTargets(i)}}

\* if hops >= max_hops
HopLimitReached_Never(hops) == FALSE

HopLimitReached(hops) == hops >= max_hops

\* the while test
RLoopTest == r_link \in DOMAIN r_redirects /\ r_link \notin r_visited

\* one turn of the loop body
RHop ==
    /\ r_pc = "loop" /\ RLoopTest
    /\ r_visited' = r_visited \cup {r_link}
    /\ r_link' = r_redirects[r_link]
    /\ r_hops' = r_hops + 1
    /\ IF HopLimitReached(r_hops + 1)
       THEN r_pc' = "returned" /\ r_result' = r_original
       ELSE r_pc' = "loop" /\ r_result' = r_result
    /\ UNCHANGED <<r_redirects, r_original>>
    /\ UNCHANGED <<inVars, xVars, jVars, eVars, parserVars, kVars, fVars, lVars, cVars>>

\* the while test fails: return link
RReturn ==
    /\ r_pc = "loop" /\ ~RLoopTest
    /\ r_pc' = "returned" /\ r_result' = r_link
    /\ UNCHANGED <<r_redirects, r_original, r_link, r_visited, r_hops>>
    /\ UNCHANGED <<inVars, xVars, jVars, eVars, parserVars, kVars, fVars, lVars, cVars>>

InitRedirect ==
    /\ KIdle /\ FIdle /\ LIdle /\ CIdle
    /\ prog = "end" /\ linkRows = <<>> /\ mapped = {}
    /\ XStart /\ JStart /\ EStart
    /\ ParsersIdle
    /\ r_redirects \in RedirectMaps
    /\ r_original \in ChainTitles
    /\ r_link = r_original
    /\ r_visited = {} /\ r_hops = 0 /\ r_pc = "loop" /\ r_result = ""

NextRedirect ==
    \/ RHop
    \/ RReturn

\* the call runs in one thread that nothing suspends: it keeps taking steps
SpecRedirect == InitRedirect /\ [][NextRedirect]_vars /\ WF_vars(NextRedirect)

(***************************************************************************)
(* The links of an article's text.                                         *)
(*                                                                         *)
(* core/parser.py:73-74                                                    *)
(*     links = re.findall(r'\[\[([^\]|#:]+)(?:\||\||\]\])', text)          *)
(*     return ('article', (article_data,                                   *)
(*                         [l.strip() for l in links if l.strip()]))       *)
(* scripts/phase1_enhanced.py:226-246                                      *)
(*     for link in wikicode.filter_wikilinks():                            *)
(*         link_text = str(link.title).strip()                             *)
(*         cleaned = self.clean_link(link_text)  ...                       *)
(*                                                                         *)
(* A text is a sequence of characters.                                     *)
(***************************************************************************)
\* pieces a text of the model is written of
MaxForms == 2

\* the pieces: plain text and wikilinks
LinkForms ==
    { <<"x">>,
      <<"[", "[", "T", "]", "]">>,
      <<"[", "[", "T", "#", "S", "]", "]">>,
      <<"[", "[", "T", "#", "S", "|", "D", "]", "]">>,
      <<"[", "[", "T", "|", "D", "]", "]">>,
      <<"[", "[", " ", "T", " ", "]", "]">>,
      <<"[", "[", "#", "S", "]", "]">>,
      <<"[", "[", "C", ":", "T", "]", "]">>,
      <<"[", "[", "U", "]", "]">> }

ArticleTexts == UNION {[1..n -> LinkForms] : n \in 1..MaxForms}

\* the text: the pieces, a blank between two of them
RECURSIVE TextOf(_)
TextOf(forms) ==
    IF forms = <<>> THEN <<>>
    ELSE IF Len(forms) = 1 THEN Head(forms)
    ELSE Head(forms) \o <<" ">> \o TextOf(Tail(forms))

\* str.strip()
RECURSIVE LStrip(_)
LStrip(str) == IF str # <<>> /\ Head(str) = " " THEN LStrip(Tail(str)) ELSE str

RECURSIVE RStrip(_)
RStrip(str) ==
    IF str # <<>> /\ str[Len(str)] = " " THEN RStrip(SubSeq(str, 1, Len(str) - 1)) ELSE str

Strip(str) == RStrip(LStrip(str))

\* str.split(sep)[0]: the part before the first sep
RECURSIVE SplitFirst(_, _)
SplitFirst(str, sep) ==
    IF str = <<>> \/ Head(str) = sep THEN <<>>
    ELSE <<Head(str)>> \o SplitFirst(Tail(str), sep)

\* the class [^\]|#:]
InLinkClass(ch) == ch \notin {"]", "|", "#", ":"}

\* the first position from i on whose character is not of the class
RECURSIVE RunEnd(_, _)
RunEnd(text, i) ==
    IF i <= Len(text) /\ InLinkClass(text[i]) THEN RunEnd(text, i + 1) ELSE i

\* the pattern at position p: "[[", the longest run of the class, not empty,
\* then "|" or "]]".  A shorter run is followed by a character of the class,
\* which is neither "|" nor "]", so backtracking finds no other match.
NoMatch == [found |-> FALSE, group |-> <<>>, end |-> 0]

MatchAt(text, p) ==
    IF ~(p + 1 <= Len(text) /\ text[p] = "[" /\ text[p + 1] = "[") THEN NoMatch
    ELSE LET q == RunEnd(text, p + 2)
         IN  IF q = p + 2 \/ q > Len(text) THEN NoMatch
             ELSE IF text[q] = "|"
                  THEN [found |-> TRUE, group |-> SubSeq(text, p + 2, q - 1), end |-> q + 1]
             ELSE IF text[q] = "]" /\ q + 1 <= Len(text) /\ text[q + 1] = "]"
                  THEN [found |-> TRUE, group |-> SubSeq(text, p + 2, q - 1), end |-> q + 2]
             ELSE NoMatch

\* [l.strip() for l in links if l.strip()]
StripAll(links) ==
    LET stripped == [i \in DOMAIN links |-> Strip(links[i])]
    IN  SelectSeq(stripped, LAMBDA l : l # <<>>)

\* wikicode.filter_wikilinks(): the wikilinks of the text in order, and
\* link.title: what stands between "[[" and the first "|" or the "]]"
IsWikilink(form) == Len(form) >= 4 /\ form[1] = "[" /\ form[2] = "["

Wikilinks(forms) == SelectSeq(forms, IsWikilink)

TitleOf(form) == SplitFirst(SubSeq(form, 3, Len(form) - 2), "|")

\* clean_link (phase1_enhanced.py:152-158)
clean_link(link_text) == Strip(SplitFirst(SplitFirst(link_text, "|"), "#"))

\* LanguageManager.get_all_namespace_prefixes: "C:" stands for them
skip_prefixes == { <<"C", ":">> }

StartsWith(str, prefix) ==
    Len(str) >= Len(prefix) /\ SubSeq(str, 1, Len(prefix)) = prefix

\* re.findall at l_pos: a match
LMatch ==
    /\ l_pc = "scan" /\ l_variant = "core"
    /\ l_pos <= Len(TextOf(l_forms))
    /\ MatchAt(TextOf(l_forms), l_pos).found
    /\ l_found' = Append(l_found, MatchAt(TextOf(l_forms), l_pos).group)
    /\ l_pos' = MatchAt(TextOf(l_forms), l_pos).end
    /\ UNCHANGED <<l_variant, l_forms, l_links, l_pc>>
    /\ UNCHANGED <<inVars, xVars, jVars, eVars, parserVars, kVars, fVars, rVars, cVars>>

\* re.findall at l_pos: no match, the scan moves on by one character
LSkip ==
    /\ l_pc = "scan" /\ l_variant = "core"
    /\ l_pos <= Len(TextOf(l_forms))
    /\ ~MatchAt(TextOf(l_forms), l_pos).found
    /\ l_pos' = l_pos + 1
    /\ UNCHANGED <<l_variant, l_forms, l_found, l_links, l_pc>>
    /\ UNCHANGED <<inVars, xVars, jVars, eVars, parserVars, kVars, fVars, rVars, cVars>>

\* the end of the text: the stripped, non-empty groups are the links
LReturnCore ==
    /\ l_pc = "scan" /\ l_variant = "core"
    /\ l_pos > Len(TextOf(l_forms))
    /\ l_links' = StripAll(l_found)
    /\ l_pc' = "returned"
    /\ UNCHANGED <<l_variant, l_forms, l_pos, l_found>>
    /\ UNCHANGED <<inVars, xVars, jVars, eVars, parserVars, kVars, fVars, rVars, cVars>>

\* one turn of process_article's loop; the title holds no interlanguage
\* prefix, self.redirects is empty and no link names the page itself
LWikilink ==
    /\ l_pc = "scan" /\ l_variant = "enhanced"
    /\ l_pos <= Len(Wikilinks(l_forms))
    /\ LET cleaned == clean_link(Strip(TitleOf(Wikilinks(l_forms)[l_pos])))
       IN  l_links' = IF cleaned # <<>> /\ ~(\E prefix \in skip_prefixes : StartsWith(cleaned, prefix))
                      THEN Append(l_links, cleaned)
                      ELSE l_links
    /\ l_pos' = l_pos + 1
    /\ UNCHANGED <<l_variant, l_forms, l_found, l_pc>>
    /\ UNCHANGED <<inVars, xVars, jVars, eVars, parserVars, kVars, fVars, rVars, cVars>>

LReturnEnhanced ==
    /\ l_pc = "scan" /\ l_variant = "enhanced"
    /\ l_pos > Len(Wikilinks(l_forms))
    /\ l_pc' = "returned"
    /\ UNCHANGED <<l_variant, l_forms, l_pos, l_found, l_links>>
    /\ UNCHANGED <<inVars, xVars, jVars, eVars, parserVars, kVars, fVars, rVars, cVars>>

InitLinks ==
    /\ KIdle /\ FIdle /\ RIdle /\ CIdle
    /\ prog = "end" /\ linkRows = <<>> /\ mapped = {}
    /\ XStart /\ JStart /\ EStart
    /\ ParsersIdle
    /\ l_variant \in {"core", "enhanced"}
    /\ l_forms \in ArticleTexts
    /\ l_pos = 1 /\ l_found = <<>> /\ l_links = <<>> /\ l_pc = "scan"

NextLinks ==
    \/ LMatch
    \/ LSkip
    \/ LReturnCore
    \/ LWikilink
    \/ LReturnEnhanced

SpecLinks == InitLinks /\ [][NextLinks]_vars

(***************************************************************************)
(* One call of _create_batches (graph_engine.py:139-180) on a shard, with  *)
(* the two global maps it reads.                                           *)
(***************************************************************************)
\* lines of a shard of the model
MaxLines == 3
\* the largest batch_size of a call of the model
MaxBatchSize == 3

BatchRecords == {[id |-> i, title |-> ChainTitle(i)] : i \in PageIds}

\* articles_batch_NNNN.jsonl.gz: records of distinct pages
ShardChoices ==
    {f \in SeqUpTo(BatchRecords, MaxLines) : \A i, j \in DOMAIN f : i # j => f[i] # f[j]}

\* links_batch_NNNN.csv.gz: rows [SourceTitle, TargetTitle]
LinkFileChoices ==
    SeqUpTo({ChainTitle(i) : i \in PageIds} \X {ChainTitle(i) : i \in PageIds}, MaxLines)

\* qid_map_global: every page id has no QID or one of two, so that two pages
\* of a shard can share a QID
QidMapChoices ==
    {[k \in {ToString(i) : i \in {j \in PageIds : d[j] # None}} |->
          d[CHOOSE i \in PageIds : ToString(i) = k]] :
        d \in [PageIds -> {None, "Q1", "Q2"}]}

\* title_qid_map_global: the titles that are indexed
TitleMapChoices ==
    {[t \in {ChainTitle(i) : i \in S} |->
          "Q" \o ToString(CHOOSE i \in PageIds : ChainTitle(i) = t)] :
        S \in SUBSET PageIds}

CCreateBatches ==
    /\ c_pc = "call"
    /\ c_batches' = CreateBatches(c_file, c_batch_size, c_lang, c_mode, c_qmap, c_tmap)
    /\ c_pc' = "returned"
    /\ UNCHANGED <<c_lang, c_file, c_mode, c_batch_size, c_qmap, c_tmap>>
    /\ UNCHANGED <<inVars, xVars, jVars, eVars, parserVars, kVars, fVars, rVars, lVars>>

InitBatches ==
    /\ KIdle /\ FIdle /\ RIdle /\ LIdle
    /\ prog = "end" /\ linkRows = <<>> /\ mapped = {}
    /\ XStart /\ JStart /\ EStart
    /\ ParsersIdle
    /\ c_lang \in Range(Languages)
    /\ c_batch_size \in 1..MaxBatchSize
    /\ \/ /\ c_mode \in {"articles", "concepts"}
          /\ c_file \in ShardChoices
          /\ c_qmap \in QidMapChoices
          /\ c_tmap = EmptyMap
       \/ /\ c_mode = "links"
          /\ c_file \in LinkFileChoices
          /\ c_qmap = EmptyMap
          /\ c_tmap \in TitleMapChoices
    /\ c_batches = <<>> /\ c_pc = "call"

NextBatches == CCreateBatches

SpecBatches == InitBatches /\ [][NextBatches]_vars

(***************************************************************************)
(* Claims about link resolution (specification SpecResolve).               *)
(***************************************************************************)
\* the ConceptId of an article record: its QID row's value, else the synthetic id
ConceptIdOf(lang, a) ==
    LET rows == {r \in QidCsv(lang) : r[1] = a.id}
    IN  IF rows = {} THEN LocalId(lang, ToString(a.id)) ELSE (CHOOSE r \in rows : TRUE)[2]

ConceptIdsOf(lang) == {ConceptIdOf(lang, a) : a \in ArticlesOf(lang)}

\* the ConceptIds of the articles of `lang` titled `title`
ConceptIdsOfTitle(lang, title) ==
    {ConceptIdOf(lang, a) : a \in {b \in ArticlesOf(lang) : b.title = title}}

\* the edges the exporter has written, as <<source, target>>
ExporterEdges == {<<w_edges_links[i][1], w_edges_links[i][2]>> : i \in DOMAIN w_edges_links}

JoinEdges == {<<j_edges[i][1], j_edges[i][2]>> : i \in DOMAIN j_edges}

LinkKeys == {k \in DOMAIN tasks : k[2] = "links"}

\* the edges in the Link batches the engine made for language index li
EngineEdges(li) ==
    UNION {{<<r.sqid, r.tqid>> : r \in Range(tasks[k].batch)} :
              k \in {j \in LinkKeys : j[1] = li}}

\* C5: every edge emitted by link resolution (pass 2 of process_files and
\* _create_batches in 'links' mode) has a source ConceptId different from its
\* target ConceptId.
C5_NoSelfEdges ==
    /\ \A e \in ExporterEdges : e[1] # e[2]
    /\ \A li \in DOMAIN Languages : \A e \in EngineEdges(li) : e[1] # e[2]

\* C6: both endpoints of every emitted edge are ConceptIds assigned to an
\* article record read from the articles shards (for the engine: the shards of
\* the languages read so far); none comes from a title that has no article.
C6_NoOrphanEdges ==
    /\ \A e \in ExporterEdges :
           e[1] \in ConceptIdsOf(XLang) /\ e[2] \in ConceptIdsOf(XLang)
    /\ \A li \in DOMAIN Languages : \A e \in EngineEdges(li) :
           \A x \in {e[1], e[2]} : \E l \in 1..li : x \in ConceptIdsOf(Languages[l])

\* the exporter is through: it wrote an edge and dropped a link whose target
\* has no article
C6_Witness ==
    /\ x_pc = "done"
    /\ w_edges_links # <<>>
    /\ \E i \in DOMAIN linkRows :
          linkRows[i][1] \in TitlesOf(XLang) /\ linkRows[i][2] \notin TitlesOf(XLang)

\* the rows of the links files the exporter has read so far
XRowsRead ==
    IF x_pc = "links" /\ x_file <= Len(LinkFiles(XLang))
    THEN Concat(SubSeq(LinkFiles(XLang), 1, x_file - 1))
             \o SubSeq(LinkFiles(XLang)[x_file], 1, x_row)
    ELSE IF x_pc \in {"links", "done", "raised"} THEN Concat(LinkFiles(XLang))
    ELSE <<>>

Unresolvable(row, index) == row[1] \notin DOMAIN index \/ row[2] \notin DOMAIN index

\* what the claim has emitted for `rows`: nothing for a row with a title that
\* is no key, the edge for a row whose titles map to different ConceptIds
RECURSIVE ClaimedEdges(_, _)
ClaimedEdges(rows, index) ==
    IF rows = <<>> THEN <<>>
    ELSE LET row == Head(rows)
         IN  (IF ~Unresolvable(row, index) /\ index[row[1]] # index[row[2]]
              THEN << <<index[row[1]], index[row[2]]>> >> ELSE <<>>)
             \o ClaimedEdges(Tail(rows), index)

\* the edges with different endpoints, in order
ProperEdges(edges) == SelectSeq(edges, LAMBDA e : e[1] # e[2])

Pairs(csv) == [i \in DOMAIN csv |-> <<csv[i][1], csv[i][2]>>]

BatchPairs(batch) == [i \in DOMAIN batch |-> <<batch[i].sqid, batch[i].tqid>>]

\* the batches list(executor.map(...)) is collecting, in order
CurBatches == [i \in 1..Cardinality(CurKeys) |-> tasks[Key(i)].batch]

\* C7: a raw link with a title that is no key of the title index yields no
\* edge, is counted as unresolved, and resolution goes on; a link whose titles
\* are keys with different ConceptIds yields exactly that edge.  For the
\* exporter the count is link_count - resolved_count; for _create_batches,
\* whose whole result is `batches`, a count can only be there if the result
\* differs from that of the same file without its unresolvable rows.
C7_UnresolvedCounted ==
    /\ ProperEdges(Pairs(w_edges_links)) = ClaimedEdges(XRowsRead, x_title_map)
    /\ link_count - resolved_count
           = Len(SelectSeq(XRowsRead, LAMBDA r : Unresolvable(r, x_title_map)))
    /\ (prog = "engine" /\ e_pc = "collect" /\ e_phase = "links") =>
           LET file == LinkFiles(Lang)[e_file]
               kept == SelectSeq(file, LAMBDA r : ~Unresolvable(r, title_qid_map_global))
           IN  /\ ProperEdges(Concat([i \in DOMAIN CurBatches |-> BatchPairs(CurBatches[i])]))
                      = ClaimedEdges(file, title_qid_map_global)
               /\ kept # file =>
                      CurBatches # CreateBatches(kept, BatchSize, Lang, "links",
                                                 qid_map_global, title_qid_map_global)

\* C8: on the same articles, QID mappings and links the in-memory strategy
\* (bulk_exporter) and the database-join strategy (prepare_neo4j_csv) emit the
\* same set of edges.
C8_SameEdges == j_pc = "done" => ExporterEdges = JoinEdges

\* C9: no raw link is resolved before the title index holds the title of every
\* article of every articles shard of the language.
C9_IndexBeforeLinks ==
    /\ (link_count > 0 \/ w_edges_links # <<>>) => TitlesOf(XLang) \subseteq DOMAIN x_title_map
    /\ (prog = "engine" /\ e_phase = "links" /\ e_pc = "collect")
           => TitlesOf(Lang) \subseteq DOMAIN title_qid_map_global
    /\ \A k \in LinkKeys : k[1] = e_li => TitlesOf(Lang) \subseteq DOMAIN title_qid_map_global

\* a link from the first shard to an article of the second shard was resolved,
\* by the exporter or by the engine
C9_Witness ==
    \/ /\ x_pc = "links" /\ <<"Big Apple", "Cherry">> \in Range(XRowsRead)
       /\ resolved_count = link_count /\ link_count > 0
    \/ /\ e_li = 1 /\ LinkKeys # {}
       /\ linkRows = << <<"Big Apple", "Cherry">> >>

\* C10: a raw link of language L is resolved only against titles of articles of
\* L: every edge of a Link batch of L comes from a row of L's links file whose
\* two titles are titles of articles of L.
C10_PerLanguageIndex ==
    \A k \in LinkKeys :
        LET lang == Languages[k[1]]
        IN  \A r \in Range(tasks[k].batch) :
                \E row \in Range(LinkFiles(lang)[k[3]]) :
                    /\ r.sqid \in ConceptIdsOfTitle(lang, row[1])
                    /\ r.tqid \in ConceptIdsOfTitle(lang, row[2])

(***************************************************************************)
(* Claims about the store after the ingestion of the languages             *)
(* (specification Spec).                                                   *)
(***************************************************************************)
\* <<a, b, q>>: article a of one language and article b of a later one have
\* page ids whose rows of the two qids files hold the same identifier q
UnifiedPairs ==
    {t \in UNION {ArticlesOf(Languages[i]) \X ArticlesOf(Languages[j])
                      \X {r[2] : r \in QidRows(Languages[i])} :
                  i \in DOMAIN Languages, j \in DOMAIN Languages} :
        \E i \in DOMAIN Languages, j \in DOMAIN Languages :
            /\ i < j
            /\ t[1] \in ArticlesOf(Languages[i]) /\ <<t[1].id, t[3]>> \in QidCsv(Languages[i])
            /\ t[2] \in ArticlesOf(Languages[j]) /\ <<t[2].id, t[3]>> \in QidCsv(Languages[j])}

\* the (:Article) node of the record and its [:REPRESENTS] to (:Concept {qid: q})
Represented(lang, a, q) ==
    /\ Copies(store.articles, <<ArtId(lang, ToString(a.id)), a.title, lang>>) = 1
    /\ Copies(store.represents, <<ArtId(lang, ToString(a.id)), q>>) = 1

\* C11: when an article of language X and an article of language Y have page
\* ids that map to the same external identifier Q, then after both languages
\* were ingested the store holds exactly one Concept node with qid Q and both
\* Article nodes have a REPRESENTS edge to it.
C11_Unified ==
    e_pc = "returned" =>
        \A t \in UnifiedPairs :
            \E i \in DOMAIN Languages, j \in DOMAIN Languages :
                /\ i < j
                /\ t[1] \in ArticlesOf(Languages[i]) /\ t[2] \in ArticlesOf(Languages[j])
                /\ Copies(store.concepts, t[3]) = 1
                /\ Represented(Languages[i], t[1], t[3])
                /\ Represented(Languages[j], t[2], t[3])

\* both languages are in, a write of the shared concept's batch was retried
\* after the store had committed it, and pl's "Banana" and de's "Banana" both
\* represent Q2
C11_Witness ==
    /\ e_pc = "returned"
    /\ UnifiedPairs # {}
    /\ \E k \in DOMAIN tasks : k[2] = "concepts" /\ "Q2" \in tasks[k].batch /\ tasks[k].attempt > 0
    /\ Copies(store.represents, <<"pl:2", "Q2">>) = 1
    /\ Copies(store.represents, <<"de:1", "Q2">>) = 1

(***************************************************************************)
(* Claims about the ConceptId of an article in the engine (specification   *)
(* SpecResolve).                                                           *)
(***************************************************************************)
\* the batches submitted for file f of a phase of language index li, in order
BatchesOf(li, phase, f) ==
    [i \in 1..Cardinality(KeysOf(li, phase, f)) |-> tasks[<<li, phase, f, i>>].batch]

\* the row of an Article batch the claim expects for an article record
ArticleRowOf(lang, a) ==
    [qid |-> ConceptIdOf(lang, a), art_id |-> ArtId(lang, ToString(a.id)), title |-> a.title]

\* C12: every article record is assigned exactly one ConceptId, the value of
\* the PageId-to-ConceptId map for its page id when there is one and
\* local:<language>:<pageId> otherwise; the title index, the Concept batches
\* and the Article batches use this same assignment for the same article.
C12_OneConceptId ==
    /\ (prog = "engine" /\ e_pc \in {"open", "collect"}) =>
           \A a \in ArticlesOf(Lang) :
               /\ a.title \in DOMAIN title_qid_map_global
               /\ title_qid_map_global[a.title] = ConceptIdOf(Lang, a)
    /\ \A li \in DOMAIN Languages : \A f \in DOMAIN ArticleFiles(Languages[li]) :
           LET lang == Languages[li]
               file == ArticleFiles(lang)[f]
           IN  /\ KeysOf(li, "concepts", f) # {} =>
                      /\ UNION Range(BatchesOf(li, "concepts", f))
                             = {ConceptIdOf(lang, a) : a \in Range(file)}
                      /\ \A a \in Range(file) :
                             Cardinality({q \in UNION Range(BatchesOf(li, "concepts", f)) :
                                              q = ConceptIdOf(lang, a)}) = 1
               /\ KeysOf(li, "articles", f) # {} =>
                      Concat(BatchesOf(li, "articles", f))
                          = [i \in DOMAIN file |-> ArticleRowOf(lang, file[i])]

\* the Article batches of pl's first shard are made: page 1 has no row in the
\* qids file and gets the synthetic identifier, page 2 has one and gets Q2
C12_Witness ==
    /\ prog = "engine" /\ e_li = 1
    /\ mapped = {2}
    /\ \E k \in DOMAIN tasks, j \in DOMAIN tasks :
          /\ k[2] = "articles" /\ j[2] = "articles"
          /\ \E r \in Range(tasks[k].batch) : r.art_id = "pl:1" /\ r.qid = "local:pl:1"
          /\ \E r \in Range(tasks[j].batch) : r.art_id = "pl:2" /\ r.qid = "Q2"
    /\ title_qid_map_global["Big Apple"] = "local:pl:1"

(***************************************************************************)
(* Claims about checkpoints and restarts (specification SpecCheckpoint).   *)
(***************************************************************************)
\* the run in progress (or just ended) found a checkpoint that a write_batch
\* of an earlier run had written after batch N = batch_number
RestartedFromBatch ==
    /\ p_run >= 2 /\ p_pc # "start"
    /\ g_start.checkpoint.state = "written" /\ g_start.checkpoint.batch_number >= 1

\* no article with a page id up to the checkpoint's last_article_id is emitted
NoneEmittedAgain == \A id \in g_emitted : id > g_start.checkpoint.last_article_id

\* the first shard files the run writes are those of batch N+1
NumberingContinues ==
    g_batches # <<>> => g_batches[1] = g_start.checkpoint.batch_number + 1

\* the shard files of batches 1..N are as the run found them
EarlierShardsKept ==
    \A n \in 1..g_start.checkpoint.batch_number :
        /\ n \in DOMAIN g_start.articles => d_articles[n] = g_start.articles[n]
        /\ n \in DOMAIN g_start.links => d_links[n] = g_start.links[n]

\* C13: MinimalParser.process_dump restarted from a checkpoint written after
\* batch N with last_article_id L emits no article with page id at most L,
\* numbers its first newly written batch N+1 and leaves the shard files of
\* batches 1..N unmodified, for any order of page ids in the dump.
C13_ResumeFromCheckpoint ==
    (p_variant = "minimal" /\ RestartedFromBatch) =>
        NoneEmittedAgain /\ NumberingContinues /\ EarlierShardsKept

\* MinimalParser.process_dump over the whole dump in one run with no
\* checkpoint: the records of the complete run
RECURSIVE RunPages(_, _)
RunPages(st, pages) ==
    IF pages = <<>> THEN st
    ELSE RunPages(MinimalPageStep(st, Head(pages), 0), Tail(pages))

CompleteRun(dump) == RunPages(ParserState(FALSE, <<>>, <<>>, 0, 0, EmptyMap, {}), dump)

\* the records in the shard files on disk
DiskArticles == UNION {Range(d_articles[n].lines) : n \in DOMAIN d_articles}

DiskLinks == UNION {Range(d_links[n].lines) : n \in DOMAIN d_links}

\* C14: after a complete run of the parser and a re-run started from any
\* checkpoint the complete run wrote, the article and link records on disk
\* contain every record of the complete run, and a record that is there twice
\* has the same key and field values in both copies.
C14_IdempotentResume ==
    (p_variant = "minimal" /\ g_runs = <<"done", "done">>) =>
        /\ Range(CompleteRun(p_dump).articles_buffer) \subseteq DiskArticles
        /\ Range(CompleteRun(p_dump).links_buffer) \subseteq DiskLinks
        /\ \A a \in DiskArticles, b \in DiskArticles : a.id = b.id => a = b

\* C15: the checkpoint on disk names a batch N whose articles_batch_N and
\* links_batch_N are completely written, and its last_article_id is the id of
\* the last article of that batch, in every reachable state, a stop between
\* the two file writes included.
C15_CheckpointAfterShards ==
    (p_variant = "production" /\ d_checkpoint.state = "written") =>
        LET N == d_checkpoint.batch_number
        IN  /\ N \in DOMAIN d_articles /\ d_articles[N].closed
            /\ N \in DOMAIN d_links /\ d_links[N].closed
            /\ d_articles[N].lines # <<>>
            /\ d_articles[N].lines[Len(d_articles[N].lines)].id = d_checkpoint.last_article_id

\* C16: after run_full_dump was interrupted with at least one batch flushed,
\* the same command run again resumes from the saved checkpoint: pages up to
\* its last_article_id are not processed again and the batch numbering goes on
\* after its batch_number.
C16_ResumeAfterInterrupt ==
    (p_variant = "production" /\ RestartedFromBatch /\ g_runs[p_run - 1] = "interrupted") =>
        NoneEmittedAgain /\ NumberingContinues

(***************************************************************************)
(* Claims about page_generator (specification SpecStream).                 *)
(***************************************************************************)
\* the texts of the pieces of the given kinds, in stream order
RECURSIVE TextsOf(_, _)
TextsOf(pieces, kinds) ==
    IF pieces = <<>> THEN <<>>
    ELSE (IF Head(pieces).kind \in kinds THEN <<Head(pieces).text>> ELSE <<>>)
         \o TextsOf(Tail(pieces), kinds)

\* the offset in the stream at which piece i starts
OffsetOf(pieces, i) == Len(Flatten(SubSeq(pieces, 1, i - 1)))

Count(seq, x) == Cardinality({i \in DOMAIN seq : seq[i] = x})

IsPrefix(a, b) == Len(a) <= Len(b) /\ a = SubSeq(b, 1, Len(a))

\* the page records that start at or after stream offset pos and do not fill
\* the buffer past the ceiling by themselves
RecordsFrom(pieces, pos) ==
    TextsOf([i \in DOMAIN pieces |->
                IF OffsetOf(pieces, i) >= pos THEN pieces[i]
                ELSE [kind |-> "before", text |-> pieces[i].text]],
            {"page"})

\* C18: after page_generator has discarded its buffer at the ceiling it goes
\* on yielding: every complete page record that starts after the discard
\* point, and does not itself drive the buffer past the ceiling, has been
\* yielded when the stream is read to its end.
C18_YieldsAfterDiscard ==
    (s_pc = "end" /\ s_discards # <<>>) =>
        LET d == s_discards[1]
            expected == RecordsFrom(s_pieces, d.pos)
            after == SubSeq(s_yielded, d.yielded + 1, Len(s_yielded))
        IN  \A i \in DOMAIN expected :
                Count(after, ReplacePageStart(expected[i])) >= Count(expected, expected[i])

\* the stream starts at a record boundary and the buffer was never discarded
WellFramed ==
    /\ \A i \in DOMAIN s_pieces : s_pieces[i].kind # "tail"
    /\ s_discards = <<>>

\* C19: for a stream that begins at a record boundary and never drives the
\* buffer past the ceiling, page_generator yields exactly the page records of
\* the stream, each once and in stream order, each span beginning with the
\* start marker and ending with the end marker, wherever the chunk boundaries
\* fall.  (The value yielded is the span with its start marker given the
\* xmlns attribute.)
C19_YieldsEveryRecord ==
    WellFramed =>
        /\ IsPrefix(s_spans, TextsOf(s_pieces, {"page", "big"}))
        /\ s_pc = "end" => s_spans = TextsOf(s_pieces, {"page", "big"})
        /\ s_yielded = [i \in DOMAIN s_spans |-> ReplacePageStart(s_spans[i])]
        /\ \A i \in DOMAIN s_spans :
               /\ IsPrefix(PAGE_START, s_spans[i])
               /\ SubSeq(s_spans[i], Len(s_spans[i]) - Len(PAGE_END) + 1, Len(s_spans[i]))
                      = PAGE_END
        /\ \A i \in DOMAIN s_yielded : IsPrefix(PAGE_START_XMLNS, s_yielded[i])

\* one record is yielded and a read has ended inside the end marker of the next
C19_Witness ==
    /\ WellFramed /\ s_pc = "read"
    /\ Len(s_spans) = 1
    /\ s_buffer = PAGE_START \o <<"b", "b">> \o <<"<", "/", "p">>

(***************************************************************************)
(* Claims about main's loop over the pool's results (specification         *)
(* SpecPool).                                                              *)
(***************************************************************************)
\* where in the articles shards the record of page id `id` stands
ShardPlaces(id) ==
    {bk \in UNION {{<<b, k>> : k \in DOMAIN m_articles_files[b]} :
                    b \in DOMAIN m_articles_files} :
        m_articles_files[bk[1]][bk[2]].id = id}

\* the titles of the records in the articles shards and in articles_buffer
ArticleTitles ==
    UNION {{m_articles_files[b][k].title : k \in DOMAIN m_articles_files[b]} :
              b \in DOMAIN m_articles_files}
    \cup {m_articles_buffer[k].title : k \in DOMAIN m_articles_buffer}

RedirectTitles == {m_redirect_file[k][1] : k \in DOMAIN m_redirect_file}

\* C17: in one parser run each page yields at most one of an article record
\* and a redirect row: no page has a record in an articles shard (or waiting
\* in the buffer for one) and a row in the redirect file.
C17_RedirectExclusive ==
    \A i \in DOMAIN m_pages :
        ~ (m_pages[i].title \in ArticleTitles /\ m_pages[i].title \in RedirectTitles)

\* a finished run that wrote a shard and a redirect row
C17_Witness ==
    /\ m_pc = "done"
    /\ m_redirect_file # <<>>
    /\ DOMAIN m_articles_files # {}

\* C20: in whatever order the workers' results reach the loop, every article
\* result stands in exactly one articles shard at the end of the run, and at
\* no time in two.
C20_EveryArticleInOneShard ==
    \A i \in DOMAIN m_pages :
        parse_page_xml(m_pages[i]).type = "article" =>
            /\ Cardinality(ShardPlaces(m_pages[i].id)) <= 1
            /\ m_pc = "done" => Cardinality(ShardPlaces(m_pages[i].id)) = 1

\* a finished run with two shards whose first shard is not in page order
C20_Witness ==
    /\ m_pc = "done"
    /\ DOMAIN m_articles_files = {1, 2}
    /\ Len(m_articles_files[1]) = 2
    /\ m_articles_files[1][1].id > m_articles_files[1][2].id

(***************************************************************************)
(* Claims about batching (specification SpecBatching).                     *)
(***************************************************************************)
Max(S) == CHOOSE x \in S : \A y \in S : y <= x

\* the articles shards on disk whose write ended: batch number -> lines
ShardsWritten ==
    IF m_pages # <<>> THEN m_articles_files
    ELSE [b \in {n \in DOMAIN d_articles : d_articles[n].closed} |-> d_articles[b].lines]

\* C21: the parser's article buffer never holds more than batch_size records
\* after a result (a page) has been handled; every articles shard written
\* holds at most batch_size records, and every shard but the last exactly
\* batch_size.
C21_BatchesBounded ==
    /\ Len(m_articles_buffer) <= ParserBatchSize
    /\ Len(p_articles_buffer) <= ParserBatchSize
    /\ \A b \in DOMAIN ShardsWritten :
           /\ Len(ShardsWritten[b]) <= ParserBatchSize
           /\ b # Max(DOMAIN ShardsWritten) => Len(ShardsWritten[b]) = ParserBatchSize

\* a finished run of core/parser.py whose last shard is not full
C21_Witness ==
    /\ m_pc = "done"
    /\ Cardinality(DOMAIN m_articles_files) >= 2
    /\ Len(m_articles_files[Max(DOMAIN m_articles_files)]) < ParserBatchSize
    /\ Len(m_articles_files[1]) = ParserBatchSize

(***************************************************************************)
(* Claims about the batch tasks (specification SpecWorker).                *)
(***************************************************************************)
\* the row names a ConceptId that has no Concept node in the store
Dangling(s, row) == Copies(s.concepts, row.sqid) = 0 \/ Copies(s.concepts, row.tqid) = 0

\* the write of a link batch creates no edge for a dangling row and no node
NoDanglingReference(s, batch) ==
    LET after == LinkWrite(s, batch)
    IN  /\ after.concepts = s.concepts /\ after.articles = s.articles
        /\ after.represents = s.represents
        /\ \A i \in DOMAIN batch :
               Dangling(s, batch[i]) =>
                   Copies(after.links_to, <<batch[i].sqid, batch[i].tqid>>) = 0

\* C22: a row of a link batch whose source or target ConceptId has no Concept
\* node in the store creates no LINKS_TO edge and no new node, and the dropped
\* row is counted.  process_link_batch returns nothing and its whole effect is
\* the store, so a count can only be there if the write of the batch differs
\* from the write of the batch without its dangling rows.
C22_DanglingDroppedCounted ==
    \A t \in DOMAIN k_tasks :
        (k_phase = "links" /\ k_tasks[t].st = "try") =>
            LET batch == k_tasks[t].batch
                kept == SelectSeq(batch, LAMBDA row : ~Dangling(k_store, row))
            IN  /\ NoDanglingReference(k_store, batch)
                /\ kept # batch => LinkWrite(k_store, batch) # LinkWrite(k_store, kept)

\* C25: each batch task uses only a store driver it created itself and closes
\* that driver before the task ends, whether the write succeeded or raised;
\* no driver is ever used by two tasks.
C25_OwnDriver ==
    /\ \A d \in DOMAIN k_drivers :
           /\ k_drivers[d].users \subseteq {k_drivers[d].owner}
           /\ k_tasks[k_drivers[d].owner].driver = d
    /\ \A t \in DOMAIN k_tasks :
           /\ k_tasks[t].st \in {"try", "returned", "raised"} =>
                  k_tasks[t].driver # NoDriver /\ k_drivers[k_tasks[t].driver].open
           /\ (k_tasks[t].st \in {"done", "failed"} /\ k_tasks[t].driver # NoDriver) =>
                  ~k_drivers[k_tasks[t].driver].open

\* one task ended with its write done and one with an exception after its
\* retries, both with their drivers closed
C25_Witness ==
    /\ \E t \in DOMAIN k_tasks : k_tasks[t].st = "done"
    /\ \E t \in DOMAIN k_tasks :
           /\ k_tasks[t].st = "failed" /\ k_tasks[t].attempt = max_retries - 1
           /\ k_tasks[t].driver # NoDriver
    /\ Len(k_drivers) = MaxTasks

\* the store after the tasks' writes in the order of submission
RECURSIVE WritesInOrder(_, _)
WritesInOrder(s, n) ==
    IF n = 0 THEN s
    ELSE Write(WritesInOrder(s, n - 1), k_phase, k_tasks[n].batch, worker_lang)

\* C29: within one phase, the final store is the same for every order and
\* interleaving in which the workers apply the phase's batches: it is the
\* store the batches give when applied one after the other.
C29_BatchesCommute ==
    (\A t \in DOMAIN k_tasks : k_tasks[t].st = "done") =>
        k_store = WritesInOrder(k_store0, Len(k_tasks))

\* both tasks are done, a worker took the second before the first, and the
\* final store is the work of both batches
C29_Witness ==
    /\ \A t \in DOMAIN k_tasks : k_tasks[t].st = "done"
    /\ k_tasks[1].driver = 2 /\ k_tasks[2].driver = 1
    /\ k_tasks[1].batch # k_tasks[2].batch
    /\ k_store # k_store0
    /\ Write(k_store0, k_phase, k_tasks[1].batch, worker_lang) # k_store
    /\ Write(k_store0, k_phase, k_tasks[2].batch, worker_lang) # k_store

(***************************************************************************)
(* Claims about damaged input (specification SpecDegraded).                *)
(***************************************************************************)
\* the exporter has written the article and its REPRESENTS edge to ConceptId q
Exported(lang, a, q) ==
    /\ \E i \in DOMAIN w_articles : w_articles[i] = <<ArtId(lang, ToString(a.id)), a.title, lang>>
    /\ \E i \in DOMAIN w_edges_rep :
           w_edges_rep[i] = <<ArtId(lang, ToString(a.id)), q, "REPRESENTS">>

\* C23: when a language's PageId-to-QID file is missing or unreadable, export
\* and ingestion still run to completion, and every article of the language
\* gets its synthetic identifier local:<lang>:<pageId>.
C23_MissingQidsDegrades ==
    f_corrupt = NoCorrupt =>
        /\ x_pc # "raised" /\ e_pc # "raised"
        /\ (x_pc = "done" /\ XLang \in f_missing) =>
               \A a \in ArticlesOf(XLang) :
                   Exported(XLang, a, LocalId(XLang, ToString(a.id)))
        /\ e_pc = "returned" =>
               \A lang \in f_missing : \A a \in ArticlesOf(lang) :
                   Represented(lang, a, LocalId(lang, ToString(a.id)))

\* C24: a line of an articles shard that is not valid JSON is skipped and the
\* remaining lines and shards are still processed: it aborts neither the
\* building of the title index, nor batch creation, nor the run.
C24_CorruptLineSkipped ==
    (f_missing = {} /\ f_corrupt # NoCorrupt) =>
        /\ x_pc # "raised" /\ e_pc # "raised"
        /\ x_pc = "done" =>
               /\ \A a \in ArticlesOf(XLang) : a.title \in DOMAIN x_title_map
               /\ \A a \in ArticlesOf(XLang) : \E q \in Range(w_concepts) : Exported(XLang, a, q[1])
        /\ e_pc = "returned" =>
               \A li \in DOMAIN Languages : \A a \in ArticlesOf(Languages[li]) :
                   \E q \in DOMAIN store.concepts : Represented(Languages[li], a, q)

(***************************************************************************)
(* Claims about resolve_redirect (specification SpecRedirect).             *)
(***************************************************************************)
\* C26: resolve_redirect terminates for every redirect map and every starting
\* title, maps with cycles and self-redirects included, after following at
\* most 5 redirect hops.
C26_TerminatesWithinHops == <>(r_pc = "returned" /\ r_hops <= max_hops)

\* C26 witness: a call on a map with a cycle has returned
C26_Witness ==
    /\ r_pc = "returned" /\ r_hops >= 2
    /\ r_link \in r_visited

\* the title k hops after t, None when the chain ends before
RECURSIVE Follow(_, _, _)
Follow(redirects, t, k) ==
    IF k = 0 THEN t
    ELSE IF t \in DOMAIN redirects THEN Follow(redirects, redirects[t], k - 1)
    ELSE None

\* a cycle-free chain of k hops leads from t to a title that is no redirect key
IsChain(redirects, t, k) ==
    /\ \A i \in 0..k : Follow(redirects, t, i) # None
    /\ \A i, j \in 0..k : i # j => Follow(redirects, t, i) # Follow(redirects, t, j)
    /\ Follow(redirects, t, k) \notin DOMAIN redirects

\* C27: for a cycle-free redirect chain of k hops, 1 <= k <= 5, from title T to
\* a title F that is no redirect key, resolve_redirect(T) returns F.
C27_ChainReturnsFinal ==
    \A k \in 1..max_hops :
        (r_pc = "returned" /\ IsChain(r_redirects, r_original, k))
            => r_result = Follow(r_redirects, r_original, k)

(***************************************************************************)
(* Claims about link extraction (specification SpecLinks).                 *)
(***************************************************************************)
\* the wikilinks [[T#S]], [[T#S|D]] and [[T|D]]
AnchoredOrPiped ==
    { <<"[", "[", "T", "#", "S", "]", "]">>,
      <<"[", "[", "T", "#", "S", "|", "D", "]", "]">>,
      <<"[", "[", "T", "|", "D", "]", "]">> }

Occurrences(seq, S) == Cardinality({i \in DOMAIN seq : seq[i] \in S})

\* C28: for every wikilink of the text written [[T#S]], [[T#S|D]] or [[T|D]]
\* the extractor emits a raw link with target T.
C28_AnchorAndDisplayRemoved ==
    l_pc = "returned" =>
        Occurrences(l_links, {<<"T">>}) >= Occurrences(l_forms, AnchoredOrPiped)

(***************************************************************************)
(* Claims about _create_batches (specification SpecBatches).               *)
(***************************************************************************)
\* the ConceptId of a record of the shard
RecordConceptId(data) ==
    IF ToString(data.id) \in DOMAIN c_qmap
    THEN c_qmap[ToString(data.id)]
    ELSE "local:" \o c_lang \o ":" \o ToString(data.id)

\* the shard's records, in file order
RecordEntries ==
    [i \in DOMAIN c_file |->
        [qid |-> RecordConceptId(c_file[i]),
         art_id |-> c_lang \o ":" \o ToString(c_file[i].id),
         title |-> c_file[i].title]]

\* the shard's resolvable links, in file order
ResolvableLinks ==
    LET kept == SelectSeq(c_file, LAMBDA row : row[1] \in DOMAIN c_tmap /\ row[2] \in DOMAIN c_tmap)
    IN  [i \in DOMAIN kept |-> [sqid |-> c_tmap[kept[i][1]], tqid |-> c_tmap[kept[i][2]]]]

\* C30: _create_batches loses and duplicates nothing: in 'articles' mode the
\* batches concatenated are the shard's records in file order, in 'links'
\* mode the shard's resolvable links in file order, in 'concepts' mode the
\* union of the batches is the set of ConceptIds of the shard's records;
\* every batch is non-empty and has at most batch_size entries.
C30_BatchesExact ==
    c_pc = "returned" =>
        CASE c_mode = "articles" ->
                /\ Concat(c_batches) = RecordEntries
                /\ \A b \in DOMAIN c_batches :
                       c_batches[b] # <<>> /\ Len(c_batches[b]) <= c_batch_size
          [] c_mode = "links" ->
                /\ Concat(c_batches) = ResolvableLinks
                /\ \A b \in DOMAIN c_batches :
                       c_batches[b] # <<>> /\ Len(c_batches[b]) <= c_batch_size
          [] c_mode = "concepts" ->
                /\ UNION Range(c_batches) = {RecordConceptId(c_file[i]) : i \in DOMAIN c_file}
                /\ \A b \in DOMAIN c_batches :
                       c_batches[b] # {} /\ Cardinality(c_batches[b]) <= c_batch_size

\* C30 witness: a shard of three records gave a full batch and a remainder
C30_Witness ==
    /\ c_pc = "returned" /\ c_mode = "articles"
    /\ Len(c_batches) = 2
    /\ Len(c_batches[1]) = c_batch_size /\ Len(c_batches[2]) < c_batch_size

====
